---- MODULE Spec2Model ----
(***************************************************************************)
(* argparser: the command line parsers of src/src/argparser.c (C),         *)
(* src/unnamed/part_002 (Java, class ArgParser) and src/src/argparser.bash *)
(* (Bash), each modelled as a state machine over one parser instance.      *)
(*                                                                         *)
(* A string is a sequence of one-character strings: "-h" is <<"-","h">>.   *)
(* A char* / String that is null is the one-element sequence Null, which   *)
(* no command line string equals; the empty string is <<>>.                *)
(***************************************************************************)
EXTENDS Integers, Sequences, FiniteSets, TLC

VARIABLES cp, jp, bp

vars == <<cp, jp, bp>>

----------------------------------------------------------------------------
(* Strings                                                                 *)

Null == <<"NULL">>

Lower == <<"a","b","c","d","e","f","g","h","i","j","k","l","m",
           "n","o","p","q","r","s","t","u","v","w","x","y","z">>

\* The byte value of a character (ASCII), as the C code reads it from *key.
Ord(ch) ==
  IF \E i \in 1..Len(Lower) : Lower[i] = ch
  THEN 96 + (CHOOSE i \in 1..Len(Lower) : Lower[i] = ch)
  ELSE CASE ch = "-" -> 45
         [] ch = "+" -> 43
         [] ch = "=" -> 61
         [] ch = "?" -> 63
         [] OTHER    -> 95

IsPrefix(p, s) == Len(p) <= Len(s) /\ SubSeq(s, 1, Len(p)) = p

\* s with its first n characters dropped (arg + n, arg.substring(n), ${arg:n}).
Drop(s, n) == SubSeq(s, n + 1, Len(s))

\* Index of the first `ch` in s, 0 when s does not contain it.
IndexOf(s, ch) ==
  IF \E i \in 1..Len(s) : s[i] = ch
  THEN CHOOSE i \in 1..Len(s) : s[i] = ch /\ \A k \in 1..(i - 1) : s[k] # ch
  ELSE 0

RECURSIVE StrLess(_, _)
\* Byte-wise order of two strings (cmp in argparser.c, sort in the C locale).
StrLess(a, b) ==
  IF a = <<>> THEN b # <<>>
  ELSE IF b = <<>> THEN FALSE
  ELSE IF Ord(Head(a)) # Ord(Head(b)) THEN Ord(Head(a)) < Ord(Head(b))
  ELSE StrLess(Tail(a), Tail(b))

RECURSIVE SortedSeq(_)
\* The strings of a finite set in byte-wise order.
SortedSeq(S) ==
  IF S = {} THEN <<>>
  ELSE LET m == CHOOSE x \in S : \A y \in S \ {x} : StrLess(x, y)
       IN <<m>> \o SortedSeq(S \ {m})

----------------------------------------------------------------------------
(* The command line vocabulary                                             *)

T_h      == <<"-","h">>
T_help   == <<"-","-","h","e","l","p">>
T_l      == <<"-","l">>
T_line   == <<"-","-","l","i","n","e">>
T_v      == <<"-","v">>
T_lines  == <<"-","-","l","i","n","e","s">>
T_x      == <<"x">>
T_extra  == <<"e","x","t","r","a">>
T_dd     == <<"-","-">>
T_pp     == <<"+","+">>
T_foo    == <<"-","-","f","o","o">>
T_bar    == <<"-","-","b","a","r">>
T_ff     == <<"f","f">>
T_ww     == <<"w","w">>

\* Option types (argparser.c lines 28-30; Argumentless/Argumented/Variadic in Java).
ARGUMENTLESS == 0
ARGUMENTED   == 1
VARIADIC     == 2

\* The options a program declares, in declaration order: the test programs'
\* {-h, --help}, {-l, --line} and a Variadic {-v, --lines}, each with
\* standard index 0.
Declared ==
  << [type |-> ARGUMENTLESS, alternatives |-> <<T_h, T_help>>,  standard |-> 0],
     [type |-> ARGUMENTED,   alternatives |-> <<T_l, T_line>>,  standard |-> 0],
     [type |-> VARIADIC,     alternatives |-> <<T_v, T_lines>>, standard |-> 0] >>

\* All sequences over S of length at most n.
RECURSIVE SeqsUpTo(_, _)
SeqsUpTo(S, n) ==
  IF n = 0 THEN {<<>>}
  ELSE LET shorter == SeqsUpTo(S, n - 1)
       IN shorter \cup {Append(s, t) : s \in {q \in shorter : Len(q) = n - 1}, t \in S}

----------------------------------------------------------------------------
(* C: args_Map, the nibble trie of argparser.c                             *)
(*                                                                         *)
(* data.nodes is the set of allocated levels, each named by the path of    *)
(* child indexes (0..15) that leads to it from the root level <<>>; levels *)
(* at even depth have 17 slots, and data.val maps such a level to the      *)
(* pointer in its slot 16 (absent from the domain when the slot is null).  *)
(* keys models the block map->keys points to: map_put only reallocates it, *)
(* so its cells are never written.                                         *)

Hi(ch) == (Ord(ch) \div 16) % 16
Lo(ch) == Ord(ch) % 16

Uninit == <<"UNINIT">>

\* map_init
map_init ==
  [keys |-> <<>>, key_count |-> 0, data |-> [nodes |-> {<<>>}, val |-> <<>>]]

RECURSIVE map_get_walk(_, _, _)
map_get_walk(data, at, key) ==
  IF key = <<>>
  THEN IF at \in DOMAIN data.val THEN data.val[at] ELSE 0
  ELSE LET a == Hi(Head(key))
           b == Lo(Head(key))
       IN IF Append(at, a) \notin data.nodes THEN 0
          ELSE IF Append(Append(at, a), b) \notin data.nodes THEN 0
          ELSE map_get_walk(data, Append(Append(at, a), b), Tail(key))

\* map_get: the value stored for key, 0 (null) if not found
map_get(map, key) == map_get_walk(map.data, <<>>, key)

\* The level at path r replaced by a freshly allocated, empty level: the old
\* level and everything below it are no longer reachable.
Overwrite(data, r) ==
  LET keep(n) == ~IsPrefix(r, n)
  IN [nodes |-> {n \in data.nodes : keep(n)} \cup {r},
      val   |-> [n \in {m \in DOMAIN data.val : keep(m)} |-> data.val[n]]]

RECURSIVE map_put_walk(_, _, _, _)
\* The descent of map_put. At the 16-slot level p the code tests slot b but
\* stores the level it allocates in slot a (line 1522).
map_put_walk(data, at, key, new) ==
  IF key = <<>> THEN [data |-> data, at |-> at, new |-> new]
  ELSE LET a     == Hi(Head(key))
           b     == Lo(Head(key))
           p     == Append(at, a)
           has_a == p \in data.nodes
           d1    == IF has_a THEN data
                    ELSE [nodes |-> data.nodes \cup {p}, val |-> data.val]
           has_b == Append(p, b) \in d1.nodes
           d2    == IF has_b THEN d1 ELSE Overwrite(d1, Append(p, a))
           at2   == IF has_b THEN Append(p, b) ELSE Append(p, a)
       IN map_put_walk(d2, at2, Tail(key), new \/ ~has_a \/ ~has_b)

\* map_put: key_count is never incremented and the key is never stored
map_put(map, key, value) ==
  LET w == map_put_walk(map.data, <<>>, key, FALSE)
  IN [keys      |-> IF w.new THEN [i \in 1..(map.key_count + 1) |-> Uninit]
                    ELSE map.keys,
      key_count |-> map.key_count,
      data      |-> [nodes |-> w.data.nodes,
                     val   |-> (w.at :> value) @@ w.data.val]]

----------------------------------------------------------------------------
(* C: the option registry and the result store (args_optmap, args_opts)    *)
(*                                                                         *)
(* st is the parser's state, a record of the module-level variables of     *)
(* argparser.c. st.arrays is the heap of args_Array objects; a value of    *)
(* args_opts is the 1-based index of one of them. A char** is a record     *)
(* [tag, elems]: the null pointer, an array, or the unset field of a       *)
(* malloc'ed args_Array. st.ub records that a store went outside its       *)
(* block.                                                                  *)

NullPtr  == [tag |-> "null",  elems |-> <<>>]
WildPtr  == [tag |-> "wild",  elems |-> <<>>]
ArrayOf(elems) == [tag |-> "array", elems |-> elems]

\* What a read of args_options[-1] yields: not an option of the program.
WildOption ==
  [type |-> 0 - 1, alternatives |-> <<>>, alternatives_count |-> 0,
   standard |-> Uninit, help |-> Uninit]

\* A constructor that takes the standard index as it is given.
args_new_option_unadjusted(type, standard, alternatives) ==
  [type |-> type, alternatives |-> alternatives,
   alternatives_count |-> Len(alternatives),
   standard |-> IF standard >= 0 THEN alternatives[standard + 1] ELSE Uninit,
   help |-> Null]

\* args_new_argumentless / args_new_argumented / args_new_variadic
args_new_option(type, standard, alternatives) ==
  LET count == Len(alternatives)
      std   == IF standard < 0 THEN standard + count ELSE standard
  IN [type |-> type, alternatives |-> alternatives, alternatives_count |-> count,
      standard |-> alternatives[std + 1], help |-> Null]

args_get_opts_count(st)   == st.args_opts.key_count
args_get_optmap(st)       == st.args_optmap.keys
args_get_optmap_count(st) == st.args_optmap.key_count

args_opts_contains(st, name) == map_get(st.args_opts, name) # 0

args_opts_get(st, name) ==
  LET value == map_get(st.args_opts, name)
  IN IF value = 0 THEN NullPtr ELSE st.arrays[value].values

args_opts_get_count(st, name) ==
  LET value == map_get(st.args_opts, name)
  IN IF value = 0 THEN 0 ELSE st.arrays[value].count

args_opts_used(st, name) == args_opts_get_count(st, name) > 0

args_opts_put(st, name, values) ==
  LET value == map_get(st.args_opts, name)
  IN IF value = 0
     THEN [st EXCEPT
             !.arrays = Append(@, [values |-> values, count |-> 0, count_set |-> FALSE]),
             !.args_opts = map_put(@, name, Len(st.arrays) + 1)]
     ELSE [st EXCEPT !.arrays[value].values = values]

args_opts_put_count(st, name, count) ==
  LET value == map_get(st.args_opts, name)
  IN IF value = 0
     THEN [st EXCEPT
             !.arrays = Append(@, [values |-> WildPtr, count |-> count, count_set |-> TRUE]),
             !.args_opts = map_put(@, name, Len(st.arrays) + 1)]
     ELSE [st EXCEPT !.arrays[value].count = count,
                     !.arrays[value].count_set = TRUE]

args_opts_new(st, name) ==
  args_opts_put_count(args_opts_put(st, name, NullPtr), name, 0)

\* args_opts_append: realloc is asked for `size` bytes, not size pointers, so
\* the store into cell size - 1 lies outside the block it returns.
args_opts_append(st, name, value) ==
  LET size   == args_opts_get_count(st, name) + 1
      values == args_opts_get(st, name)
      grown  == [i \in 1..size |->
                   IF i = size THEN value
                   ELSE IF i <= Len(values.elems) THEN values.elems[i] ELSE Uninit]
      st1    == IF values.tag = "null"
                THEN args_opts_put(st, name, ArrayOf(<<value>>))
                ELSE [args_opts_put(st, name, ArrayOf(grown)) EXCEPT !.ub = TRUE]
  IN args_opts_put_count(st1, name, size)

args_opts_clear(st, name) == args_opts_new(st, name)

args_optmap_put(st, name, index) ==
  [st EXCEPT !.args_optmap = map_put(@, name, index + 1)]

args_optmap_get_index(st, name) == map_get(st.args_optmap, name) - 1

args_optmap_contains(st, name) == args_optmap_get_index(st, name) >= 0

\* *(args_options + index)
args_options_get(st, index) ==
  IF index >= 0 /\ index < st.args_options_count
  THEN st.args_options[index + 1] ELSE WildOption

args_optmap_get_type(st, name) ==
  args_options_get(st, args_optmap_get_index(st, name)).type

args_optmap_get_standard(st, name) ==
  args_options_get(st, args_optmap_get_index(st, name)).standard

RECURSIVE optmap_put_all(_, _, _)
optmap_put_all(st, alternatives, i) ==
  IF i > Len(alternatives) THEN st
  ELSE optmap_put_all(args_optmap_put(st, alternatives[i], st.args_options_count),
                      alternatives, i + 1)

\* args_add_option
args_add_option(st, option, help) ==
  LET st1 == optmap_put_all(st, option.alternatives, 1)
      st2 == args_opts_put(st1, option.standard, NullPtr)
      st3 == args_opts_put_count(st2, option.standard, 0)
  IN [st3 EXCEPT !.args_options = Append(@, [option EXCEPT !.help = help]),
                 !.args_options_count = @ + 1]

----------------------------------------------------------------------------
(* C: args_parse                                                           *)
(*                                                                         *)
(* st.argv is args_arguments (argv without the program name, so argc is    *)
(* Len(st.argv) + 1) and st.pos the number of tokens the scan has read.    *)
(* st.out is the text written to args_out, one record per line.            *)

NUL == "NUL"

\* *(s + i)
At(s, i) == IF i < Len(s) THEN s[i + 1] ELSE NUL

Line(kind, arg, more) == [kind |-> kind, arg |-> arg, more |-> more]

RECURSIVE queuesize_of(_, _)
\* Lines 1164-1175: one queue cell per token and per cluster character.
queuesize_of(argv, k) ==
  IF k > Len(argv) THEN 0
  ELSE LET arg == argv[k]
       IN (IF (At(arg, 0) = "-" \/ At(arg, 0) = "+") /\ At(arg, 1) # NUL
              /\ At(arg, 0) # At(arg, 1)
           THEN Len(arg) - 1 ELSE 0)
          + queuesize_of(argv, k + 1)

\* An initialisation that starts the scan with one token to skip.
args_parse_begin_skipping(st, argv) ==
  [st EXCEPT
     !.argv = argv, !.pos = 0,
     !.dashed = FALSE, !.tmpdashed = FALSE, !.get = 0, !.dontget = 1, !.rc = TRUE,
     !.argptr = 0, !.optptr = 0,
     !.queuesize = Len(argv) + queuesize_of(argv, 1),
     !.argqueue = <<>>, !.optqueue = <<>>, !.args_freequeue = <<>>,
     !.args_freeptr = 0,
     !.args_unrecognised_count = 0,
     !.args_arguments_count = Len(argv),
     !.args_files = [i \in 1..st.args_files_count |-> Uninit]]

\* Lines 1152-1181: the locals, the counters args_parse resets and the blocks
\* it allocates. args_files_count is not reset; the cells below it in the new
\* args_files block are unset.
args_parse_begin(st, argv) ==
  [st EXCEPT
     !.argv = argv, !.pos = 0,
     !.dashed = FALSE, !.tmpdashed = FALSE, !.get = 0, !.dontget = 0, !.rc = TRUE,
     !.argptr = 0, !.optptr = 0,
     !.queuesize = Len(argv) + queuesize_of(argv, 1),
     !.argqueue = <<>>, !.optqueue = <<>>, !.args_freequeue = <<>>,
     !.args_freeptr = 0,
     !.args_unrecognised_count = 0,
     !.args_arguments_count = Len(argv),
     !.args_files = [i \in 1..st.args_files_count |-> Uninit]]

\* *(argqueue + argptr++) = value
push_arg(st, value) ==
  [st EXCEPT !.argqueue = Append(@, value), !.argptr = @ + 1,
             !.ub = @ \/ st.argptr >= st.queuesize]

\* *(optqueue + optptr++) = name
push_opt(st, name) ==
  [st EXCEPT !.optqueue = Append(@, name), !.optptr = @ + 1,
             !.ub = @ \/ st.optptr >= st.queuesize]

\* *(args_freequeue + args_freeptr++) = ptr
push_free(st, ptr) ==
  [st EXCEPT !.args_freequeue = Append(@, ptr), !.args_freeptr = @ + 1,
             !.ub = @ \/ st.args_freeptr >= st.queuesize]

\* A store of the file that moves args_files_count on by two cells.
push_file_double(st, arg) ==
  LET n == st.args_files_count + 1
  IN [st EXCEPT !.args_files = [i \in 1..(n + 1) |->
                                  IF i >= n THEN arg ELSE st.args_files[i]],
                !.args_files_count = n + 1,
                !.ub = @ \/ st.args_files_count + 1 >= Len(st.argv)]

\* *(args_files + args_files_count++) = arg
push_file(st, arg) ==
  LET n == st.args_files_count + 1
      m == IF n > Len(st.args_files) THEN n ELSE Len(st.args_files)
  IN [st EXCEPT !.args_files = [i \in 1..m |-> IF i = n THEN arg ELSE st.args_files[i]],
                !.args_files_count = n,
                !.ub = @ \/ st.args_files_count >= Len(st.argv)]

\* unrecognised without its last statement: the count and the diagnostic, but
\* rc is left as it was.
unrecognised_keeps_rc(st, arg) ==
  [st EXCEPT !.args_unrecognised_count = @ + 1,
             !.out = IF st.args_unrecognised_count + 1 <= 5
                     THEN Append(@, Line("unrecognised", arg, 0)) ELSE @]

\* unrecognised that also queues the token as an option use.
unrecognised_queued(st, arg) ==
  [push_opt(st, arg) EXCEPT !.args_unrecognised_count = @ + 1,
                            !.out = IF st.args_unrecognised_count + 1 <= 5
                                    THEN Append(@, Line("unrecognised", arg, 0)) ELSE @,
                            !.rc = FALSE]

\* if (++args_unrecognised_count <= 5) fprintf(...); rc = false;
unrecognised(st, arg) ==
  [st EXCEPT !.args_unrecognised_count = @ + 1,
             !.out = IF st.args_unrecognised_count + 1 <= 5
                     THEN Append(@, Line("unrecognised", arg, 0)) ELSE @,
             !.rc = FALSE]

\* Lines 1204-1260: a token whose first two characters are equal.
parse_long(st, arg) ==
  IF st.dontget > 0 THEN [st EXCEPT !.dontget = @ - 1]
  ELSE IF ~args_optmap_contains(st, arg) THEN unrecognised(st, arg)
  ELSE LET type == args_optmap_get_type(st, arg)
           eq   == IF type # ARGUMENTLESS
                   THEN (IF IndexOf(arg, "=") = 0 THEN Len(arg) ELSE IndexOf(arg, "=") - 1)
                   ELSE 0
       IN IF type = ARGUMENTLESS THEN push_arg(push_opt(st, arg), Null)
          ELSE IF At(arg, eq) = "="
          THEN LET arg_opt == SubSeq(arg, 1, eq)
               IN IF args_optmap_contains(st, arg_opt)
                     /\ args_optmap_get_type(st, arg_opt) >= ARGUMENTED
                  THEN LET st1 == push_free(push_arg(push_opt(st, arg_opt),
                                                     Drop(arg, eq + 1)), arg_opt)
                       IN IF args_optmap_get_type(st, arg_opt) = VARIADIC
                          THEN [st1 EXCEPT !.dashed = TRUE] ELSE st1
                  ELSE unrecognised(st, arg)
          ELSE IF type = ARGUMENTED THEN [push_opt(st, arg) EXCEPT !.get = @ + 1]
          ELSE [push_arg(push_opt(st, arg), Null) EXCEPT !.dashed = TRUE]

RECURSIVE parse_cluster(_, _, _, _)
\* Lines 1263-1301: the characters of a single-sigil token, from index i.
parse_cluster(st, arg, sign, i) ==
  IF At(arg, i) = NUL THEN st
  ELSE LET narg == <<sign, At(arg, i)>>
           j    == i + 1
       IN IF args_optmap_contains(st, narg)
          THEN LET type == args_optmap_get_type(st, narg)
                   st1  == push_opt(push_free(st, narg), narg)
               IN IF type = ARGUMENTLESS
                  THEN parse_cluster(push_arg(st1, Null), arg, sign, j)
                  ELSE IF type = ARGUMENTED
                  THEN IF At(arg, j) # NUL THEN push_arg(st1, Drop(arg, j))
                       ELSE [st1 EXCEPT !.get = @ + 1]
                  ELSE [push_arg(st1, IF At(arg, j) # NUL THEN Drop(arg, j) ELSE Null)
                          EXCEPT !.dashed = TRUE]
          ELSE parse_cluster(unrecognised(st, arg), arg, sign, j)

\* args_parse_token with a tmpdashed branch that does not reset tmpdashed.
args_parse_token_sticky(st, arg) ==
  IF st.get > 0 /\ st.dontget = 0
  THEN [push_arg(st, arg) EXCEPT !.get = @ - 1]
  ELSE IF st.tmpdashed THEN push_file(st, arg)
  ELSE IF st.dashed THEN push_file(st, arg)
  ELSE IF At(arg, 0) = "+" /\ At(arg, 1) = "+" /\ At(arg, 2) = NUL
  THEN [st EXCEPT !.tmpdashed = TRUE]
  ELSE IF At(arg, 0) = "-" /\ At(arg, 1) = "-" /\ At(arg, 2) = NUL
  THEN [st EXCEPT !.dashed = TRUE]
  ELSE IF (At(arg, 0) = "-" \/ At(arg, 0) = "+") /\ At(arg, 1) # NUL
  THEN IF At(arg, 0) = At(arg, 1) THEN parse_long(st, arg)
       ELSE parse_cluster(st, arg, At(arg, 0), 1)
  ELSE unrecognised(st, arg)

\* Lines 1185-1308: one iteration of the scan loop, on the token arg. The
\* final else pairs with the sigil test, so a token without sigil is counted
\* as unrecognised.
args_parse_token(st, arg) ==
  IF st.get > 0 /\ st.dontget = 0
  THEN [push_arg(st, arg) EXCEPT !.get = @ - 1]
  ELSE IF st.tmpdashed THEN [push_file(st, arg) EXCEPT !.tmpdashed = FALSE]
  ELSE IF st.dashed THEN push_file(st, arg)
  ELSE IF At(arg, 0) = "+" /\ At(arg, 1) = "+" /\ At(arg, 2) = NUL
  THEN [st EXCEPT !.tmpdashed = TRUE]
  ELSE IF At(arg, 0) = "-" /\ At(arg, 1) = "-" /\ At(arg, 2) = NUL
  THEN [st EXCEPT !.dashed = TRUE]
  ELSE IF (At(arg, 0) = "-" \/ At(arg, 0) = "+") /\ At(arg, 1) # NUL
  THEN IF At(arg, 0) = At(arg, 1) THEN parse_long(st, arg)
       ELSE parse_cluster(st, arg, At(arg, 0), 1)
  ELSE unrecognised(st, arg)

\* The bare-file list: the first args_files_count cells of args_files.
files_of(st) == SubSeq(st.args_files, 1, st.args_files_count)

RECURSIVE parse_deliver(_, _)
\* Lines 1311-1323: the queued uses are written to the result store. The value
\* appended is read from optqueue (line 1316).
parse_deliver(st, i) ==
  IF i >= st.optptr THEN st
  ELSE LET opt == args_optmap_get_standard(st, st.optqueue[i + 1])
           arg == IF st.argptr > i THEN st.optqueue[i + 1] ELSE Null
           st1 == IF ~args_optmap_contains(st, opt) \/ ~args_opts_contains(st, opt)
                  THEN args_opts_new(st, opt) ELSE st
           st2 == IF st.argptr >= i + 1 THEN args_opts_append(st1, opt, arg) ELSE st1
       IN parse_deliver(st2, i + 1)

RECURSIVE append_files(_, _, _)
\* for (j = 0; j < args_files_count; j++) args_opts_append(std, *(args_files + j));
append_files(st, std, j) ==
  IF j >= st.args_files_count THEN st
  ELSE append_files(args_opts_append(st, std, st.args_files[j + 1]), std, j + 1)

\* parse_variadic without the args_opts_contains test: the first Variadic
\* option takes the bare files whether or not the result store contains it.
parse_variadic_unguarded(st) ==
  LET hits == {i \in 0..(st.args_options_count - 1) :
                 args_options_get(st, i).type = VARIADIC}
  IN IF hits = {} THEN st
     ELSE LET i      == CHOOSE h \in hits : \A g \in hits : h <= g
              std    == args_options_get(st, i).standard
              values == args_opts_get(st, std)
          IN IF values.tag # "array" THEN [st EXCEPT !.crashed = TRUE]
             ELSE LET st1 == IF Len(values.elems) > 0 /\ values.elems[1] = Null
                             THEN args_opts_clear(st, std) ELSE st
                  IN [append_files(st1, std, 0) EXCEPT !.args_files_count = 0]

\* Lines 1325-1341: the first Variadic option whose standard name the result
\* store contains takes the bare files. *(args_opts_get(std)) is read
\* without a null test: st.crashed records the read through a null pointer.
parse_variadic(st) ==
  LET hits == {i \in 0..(st.args_options_count - 1) :
                 /\ args_options_get(st, i).type = VARIADIC
                 /\ args_opts_contains(st, args_options_get(st, i).standard)}
  IN IF hits = {} THEN st
     ELSE LET i      == CHOOSE h \in hits : \A g \in hits : h <= g
              std    == args_options_get(st, i).standard
              values == args_opts_get(st, std)
          IN IF values.tag # "array" THEN [st EXCEPT !.crashed = TRUE]
             ELSE LET st1 == IF Len(values.elems) > 0 /\ values.elems[1] = Null
                             THEN args_opts_clear(st, std) ELSE st
                  IN [append_files(st1, std, 0) EXCEPT !.args_files_count = 0]

RECURSIVE join_files_trailing(_, _)
\* A join that leaves the space written after the last file in place.
join_files_trailing(files, i) ==
  IF i > Len(files) THEN <<>>
  ELSE files[i] \o <<" ">> \o join_files_trailing(files, i + 1)

RECURSIVE join_files(_, _)
\* Lines 1359-1366: every file followed by a blank, the last blank cut off.
join_files(files, i) ==
  IF i > Len(files) THEN <<>>
  ELSE files[i] \o (IF i < Len(files) THEN <<" ">> ELSE <<>>) \o join_files(files, i + 1)

Word_option  == <<"o","p","t","i","o","n">>
Word_options == <<"o","p","t","i","o","n","s">>

\* Lines 1346-1376: args_message and the summary of the unrecognised options
\* that were not reported one by one.
parse_finish(st) ==
  LET more == st.args_unrecognised_count - 5
  IN [st EXCEPT
        !.args_message = IF st.args_files_count > 0
                         THEN join_files(files_of(st), 1) ELSE Null,
        !.out = IF st.args_unrecognised_count > 5
                THEN Append(@, Line("more", IF more = 1 THEN Word_option ELSE Word_options, more))
                ELSE @]

\* *(keys + i), for a block of Len(keys) cells
key_at(keys, i) == IF i < Len(keys) THEN keys[i + 1] ELSE Uninit

RECURSIVE support_alternatives_loop(_, _)
\* Lines 924-929: every round reads opts[0] and writes opts[1]; i only counts.
support_alternatives_loop(st, i) ==
  IF i >= args_get_optmap_count(st) THEN st
  ELSE LET opts == args_get_optmap(st)
           std  == args_optmap_get_standard(st, key_at(opts, 0))
           st1  == args_opts_put(st, key_at(opts, 1), args_opts_get(st, std))
           st2  == args_opts_put_count(st1, key_at(opts, 1), args_opts_get_count(st, std))
       IN support_alternatives_loop(st2, i + 1)

\* args_support_alternatives
args_support_alternatives(st) == support_alternatives_loop(st, 0)

----------------------------------------------------------------------------
(* C: args_test_allowed and args_test_exclusiveness                        *)
(*                                                                         *)
(* Both sort the caller's list and the key block of args_opts in place and *)
(* then walk the two sorted lists side by side. They return the parser     *)
(* state (its key block sorted, the diagnostics appended to st.out), the   *)
(* caller's list as sorted, and the result rc.                             *)

args_get_opts(st) == st.args_opts.keys

\* cmp: -1, 0 or 1 by the first differing byte
cmp(a, b) == IF a = b THEN 0 ELSE IF StrLess(a, b) THEN 0 - 1 ELSE 1

RECURSIVE merge(_, _)
\* The merging loops of _sort: the left element goes first unless it is greater.
merge(l, r) ==
  IF l = <<>> THEN r
  ELSE IF r = <<>> THEN l
  ELSE IF cmp(Head(l), Head(r)) <= 0 THEN <<Head(l)>> \o merge(Tail(l), r)
  ELSE <<Head(r)>> \o merge(l, Tail(r))

RECURSIVE merge_sort(_)
\* _sort: the halves list[0 .. a) and list[a .. count), a = count >> 1
merge_sort(list) ==
  IF Len(list) > 1
  THEN LET a == Len(list) \div 2
       IN merge(merge_sort(SubSeq(list, 1, a)), merge_sort(SubSeq(list, a + 1, Len(list))))
  ELSE list

\* sort: the first count cells of list, in place
sort(list, count) ==
  merge_sort(SubSeq(list, 1, count)) \o SubSeq(list, count + 1, Len(list))

\* A sort that gives back only the cells it has sorted.
sort_opts_truncating(st) ==
  [st EXCEPT !.args_opts.keys =
     merge_sort(SubSeq(args_get_opts(st), 1, args_get_opts_count(st)))]

\* sort(opts, args_get_opts_count()) on the key block of args_opts
sort_opts(st) ==
  [st EXCEPT !.args_opts.keys = sort(args_get_opts(st), args_get_opts_count(st))]

RECURSIVE allowed_skip(_, _, _)
\* Line 850: while ((allowed != a) && (cmp(*opts, *allowed) > 0)) allowed++
allowed_skip(opt, allowed, j) ==
  IF j <= Len(allowed) /\ cmp(opt, allowed[j]) > 0
  THEN allowed_skip(opt, allowed, j + 1) ELSE j

RECURSIVE allowed_loop(_, _, _, _, _)
\* Lines 836-853: i and j are the offsets of opts and allowed
allowed_loop(st, allowed, i, j, rc) ==
  IF i >= args_get_opts_count(st) THEN [st |-> st, rc |-> rc]
  ELSE LET opt  == key_at(args_get_opts(st), i)
           bad  == /\ (j > Len(allowed) \/ cmp(opt, allowed[j]) < 0)
                   /\ args_opts_used(st, opt)
           std  == args_optmap_get_standard(st, opt)
           st1  == IF bad
                   THEN [st EXCEPT !.out = Append(@, Line("context", opt, std))]
                   ELSE st
       IN allowed_loop(st1, allowed, i + 1, allowed_skip(opt, allowed, j),
                       rc /\ ~bad)

\* args_test_allowed
args_test_allowed(st, allowed) ==
  LET list == sort(allowed, Len(allowed))
      r    == allowed_loop(sort_opts(st), list, 0, 1, TRUE)
  IN [st |-> r.st, list |-> list, rc |-> r.rc]

RECURSIVE opts_skip(_, _, _)
\* Line 884: while ((opts != o) && (cmp(*opts, *exclusives) > 0)) opts++
opts_skip(st, excl, i) ==
  IF i < args_get_opts_count(st) /\ cmp(key_at(args_get_opts(st), i), excl) > 0
  THEN opts_skip(st, excl, i + 1) ELSE i

RECURSIVE exclusives_skip(_, _, _)
\* Line 886: while ((exclusives != e) && (cmp(*opts, *exclusives) > 0)) exclusives++
exclusives_skip(opt, exclusives, j) ==
  IF j <= Len(exclusives) /\ cmp(opt, exclusives[j]) > 0
  THEN exclusives_skip(opt, exclusives, j + 1) ELSE j

RECURSIVE exclusiveness_loop(_, _, _, _, _)
\* Lines 882-891: i and j are the offsets of opts and exclusives; used is the
\* block the used options are collected in. A round that has run off the end
\* of either list reads the cell behind it.
exclusiveness_loop(st, exclusives, i, j, used) ==
  IF i >= args_get_opts_count(st) \/ j > Len(exclusives)
  THEN [st |-> st, used |-> used]
  ELSE LET i1 == opts_skip(st, exclusives[j], i)
       IN IF i1 >= args_get_opts_count(st)
          THEN [st |-> [st EXCEPT !.ub = TRUE], used |-> used]
          ELSE LET opt == key_at(args_get_opts(st), i1)
                   j1  == exclusives_skip(opt, exclusives, j)
               IN IF j1 > Len(exclusives)
                  THEN [st |-> [st EXCEPT !.ub = TRUE], used |-> used]
                  ELSE exclusiveness_loop(st, exclusives, i1 + 1, j1,
                         IF cmp(opt, exclusives[j1]) = 0 /\ args_opts_used(st, opt)
                         THEN Append(used, opt) ELSE used)

\* args_test_exclusiveness: the diagnostic is written when used_ptr >= 1
args_test_exclusiveness(st, exclusives) ==
  LET list == sort(exclusives, Len(exclusives))
      r    == exclusiveness_loop(sort_opts(st), list, 0, 1, <<>>)
      used == r.used
  IN [st   |-> IF Len(used) >= 1
               THEN [r.st EXCEPT !.out = Append(@, Line("conflict", used, Len(used)))]
               ELSE r.st,
      list |-> list,
      rc   |-> ~(Len(used) >= 1)]

----------------------------------------------------------------------------
(* C: the program, as a state machine                                      *)
(*                                                                         *)
(* The program calls args_init, declares the first ndecl options of        *)
(* Declared with args_add_option, calls args_parse once and may then call  *)
(* args_support_alternatives.                                              *)

CMaxArgs   == 4
MaxResolve == 2

CTokens == {T_h, T_line, T_x, T_extra, T_dd, T_pp, T_lines, T_foo}

CInputs == SeqsUpTo(CTokens, CMaxArgs)

T_helptext == <<"h","e","l","p">>

\* The program has not called args_test_allowed or args_test_exclusiveness.
NoTest == [fn |-> "none", list |-> <<>>, rc |-> TRUE, wrote |-> 0]

\* args_init (lines 115-148)
args_init(ndecl) ==
  [pc |-> "declare", ndecl |-> ndecl,
   args_options |-> <<>>, args_options_count |-> 0,
   args_optmap |-> map_init, args_opts |-> map_init, arrays |-> <<>>,
   args_arguments_count |-> 0, args_unrecognised_count |-> 0,
   args_files_count |-> 0, args_files |-> <<>>, args_message |-> Null,
   args_freequeue |-> <<>>, args_freeptr |-> 0,
   argv |-> <<>>, pos |-> 0,
   dashed |-> FALSE, tmpdashed |-> FALSE, get |-> 0, dontget |-> 0, rc |-> TRUE,
   argptr |-> 0, optptr |-> 0, queuesize |-> 0, argqueue |-> <<>>, optqueue |-> <<>>,
   out |-> <<>>, ub |-> FALSE, crashed |-> FALSE, resolved |-> 0,
   calls |-> 0, test |-> NoTest]

Off == [pc |-> "off"]

CInit == /\ cp \in {args_init(n) : n \in {2, 3}}
         /\ jp = Off
         /\ bp = Off

CAddOption ==
  /\ cp.pc = "declare"
  /\ cp.args_options_count < cp.ndecl
  /\ LET d == Declared[cp.args_options_count + 1]
     IN cp' = args_add_option(cp, args_new_option(d.type, d.standard, d.alternatives),
                              T_helptext)
  /\ UNCHANGED <<jp, bp>>

CParseBegin ==
  /\ cp.pc = "declare"
  /\ cp.args_options_count = cp.ndecl
  /\ \E argv \in CInputs : cp' = [args_parse_begin(cp, argv) EXCEPT !.pc = "scan"]
  /\ UNCHANGED <<jp, bp>>

CScanToken ==
  /\ cp.pc = "scan"
  /\ cp.pos < Len(cp.argv)
  /\ cp' = [args_parse_token(cp, cp.argv[cp.pos + 1]) EXCEPT !.pos = cp.pos + 1]
  /\ UNCHANGED <<jp, bp>>

CDeliver ==
  /\ cp.pc = "scan"
  /\ cp.pos = Len(cp.argv)
  /\ cp' = [parse_deliver(cp, 0) EXCEPT !.pc = "variadic"]
  /\ UNCHANGED <<jp, bp>>

CVariadic ==
  /\ cp.pc = "variadic"
  /\ LET st == parse_variadic(cp)
     IN cp' = [st EXCEPT !.pc = IF st.crashed THEN "crashed" ELSE "message"]
  /\ UNCHANGED <<jp, bp>>

CFinish ==
  /\ cp.pc = "message"
  /\ cp' = [parse_finish(cp) EXCEPT !.pc = "done"]
  /\ UNCHANGED <<jp, bp>>

CSupportAlternatives ==
  /\ cp.pc = "done"
  /\ cp.resolved < MaxResolve
  /\ cp' = [args_support_alternatives(cp) EXCEPT !.resolved = @ + 1]
  /\ UNCHANGED <<jp, bp>>

CNext == \/ CAddOption
         \/ CParseBegin
         \/ CScanToken
         \/ CDeliver
         \/ CVariadic
         \/ CFinish
         \/ CSupportAlternatives

SpecC == CInit /\ [][CNext]_vars

----------------------------------------------------------------------------
(* C: a program that uses the result store directly                        *)
(*                                                                         *)
(* The program declares the options of StoreDeclared, parses a short       *)
(* command line, may then call args_opts_append                            *)
(* itself, and calls args_test_allowed and args_test_exclusiveness. cp.test *)
(* is the last test call: the function, the caller's list as the call left *)
(* it, the value returned and the number of lines the call wrote.          *)

StoreMaxArgs  == 3
StoreMaxCalls == 2

\* {ff, ww} is declared with standard index -1: its standard spelling is ww.
StoreDeclared ==
  << [type |-> ARGUMENTLESS, alternatives |-> <<T_h, T_help>>, standard |-> 0],
     [type |-> ARGUMENTED,   alternatives |-> <<T_l, T_line>>, standard |-> 0],
     [type |-> ARGUMENTLESS, alternatives |-> <<T_ff, T_ww>>,  standard |-> 0 - 1] >>

StoreTokens == {T_h, T_l, T_x}

StoreInputs == SeqsUpTo(StoreTokens, StoreMaxArgs)

\* The names the program appends to: one spelling with a sigil, two without.
StoreNames == {T_l, T_ff, T_ww}

TestLists == {<<>>, <<T_h, T_l>>, <<T_l, T_h>>, <<T_ww>>, <<T_ww, T_ff>>}

StoreInit == /\ cp = args_init(Len(StoreDeclared))
             /\ jp = Off
             /\ bp = Off

CStoreAddOption ==
  /\ cp.pc = "declare"
  /\ cp.args_options_count < cp.ndecl
  /\ LET d == StoreDeclared[cp.args_options_count + 1]
     IN cp' = args_add_option(cp, args_new_option(d.type, d.standard, d.alternatives),
                              T_helptext)
  /\ UNCHANGED <<jp, bp>>

CStoreParseBegin ==
  /\ cp.pc = "declare"
  /\ cp.args_options_count = cp.ndecl
  /\ \E argv \in StoreInputs : cp' = [args_parse_begin(cp, argv) EXCEPT !.pc = "scan"]
  /\ UNCHANGED <<jp, bp>>

CStoreAppend ==
  /\ cp.pc = "done"
  /\ cp.calls < StoreMaxCalls
  /\ \E name \in StoreNames :
       cp' = [args_opts_append(cp, name, T_x) EXCEPT !.calls = @ + 1, !.test = NoTest]
  /\ UNCHANGED <<jp, bp>>

CTestAllowed ==
  /\ cp.pc = "done"
  /\ \E allowed \in TestLists :
       LET r == args_test_allowed(cp, allowed)
       IN cp' = [r.st EXCEPT !.test = [fn |-> "allowed", list |-> r.list, rc |-> r.rc,
                                     wrote |-> Len(r.st.out) - Len(cp.out)]]
  /\ UNCHANGED <<jp, bp>>

CTestExclusiveness ==
  /\ cp.pc = "done"
  /\ \E exclusives \in TestLists :
       LET r == args_test_exclusiveness(cp, exclusives)
       IN cp' = [r.st EXCEPT !.test = [fn |-> "exclusiveness", list |-> r.list, rc |-> r.rc,
                                     wrote |-> Len(r.st.out) - Len(cp.out)]]
  /\ UNCHANGED <<jp, bp>>

StoreNext == \/ CStoreAddOption
             \/ CStoreParseBegin
             \/ CScanToken
             \/ CDeliver
             \/ CVariadic
             \/ CFinish
             \/ CStoreAppend
             \/ CTestAllowed
             \/ CTestExclusiveness

SpecCStore == StoreInit /\ [][StoreNext]_vars

----------------------------------------------------------------------------
(* Java: class ArgParser (src/unnamed/part_002)                            *)
(*                                                                         *)
(* st is one ArgParser instance together with the locals of parse. optmap  *)
(* and opts are HashMaps, modelled as functions on the keys they hold; a   *)
(* String[] is NullPtr or ArrayOf(elems), a null String is Null.           *)

\* What optmap.get returns for a key the map does not hold.
NullOption ==
  [type |-> 0 - 1, alternatives |-> <<>>, standard |-> Null, help |-> Null]

\* Option(alternatives, standard, argument): a negative standard counts from
\* the end of alternatives.
Option(type, alternatives, standard) ==
  [type |-> type, alternatives |-> alternatives,
   standard |-> alternatives[(IF standard < 0 THEN Len(alternatives) + standard
                              ELSE standard) + 1],
   help |-> Null]

HashMap_get(m, k, none) == IF k \in DOMAIN m THEN m[k] ELSE none

HashMap_put(m, k, v) == (k :> v) @@ m

optmap_get(st, name) == HashMap_get(st.optmap, name, NullOption)

opts_get(st, name) == HashMap_get(st.opts, name, NullPtr)

\* append(array, items): a new array, array followed by items
append(array, items) == ArrayOf(array.elems \o items)

\* new ArgParser(...): the fields a parse reads and writes
ArgParser(ndecl, inputs) ==
  [pc |-> "declare", ndecl |-> ndecl, inputs |-> inputs,
   options |-> <<>>, optmap |-> <<>>, opts |-> <<>>,
   files |-> <<>>, unrecognisedCount |-> 0, message |-> Null, arguments |-> <<>>,
   pos |-> 0, dashed |-> FALSE, tmpdashed |-> FALSE, get |-> 0, dontget |-> 0,
   rc |-> TRUE, argqueue |-> <<>>, optqueue |-> <<>>,
   out |-> <<>>, thrown |-> FALSE, resolved |-> 0, test |-> NoTest]

RECURSIVE add_alternatives(_, _, _)
add_alternatives(optmap, option, i) ==
  IF i > Len(option.alternatives) THEN optmap
  ELSE add_alternatives(HashMap_put(optmap, option.alternatives[i], option), option, i + 1)

\* add(help, option)
add(st, option, help) ==
  LET o == [option EXCEPT !.help = help]
  IN [st EXCEPT !.options = Append(@, o),
                !.optmap  = add_alternatives(@, o, 1),
                !.opts    = HashMap_put(@, o.standard, NullPtr)]

\* parse, lines 921-930: the queues and flags are fresh; files,
\* unrecognisedCount and message are the instance's.
jparse_begin(st, argv) ==
  [st EXCEPT !.arguments = argv, !.pos = 0,
             !.argqueue = <<>>, !.optqueue = <<>>,
             !.dashed = FALSE, !.tmpdashed = FALSE, !.rc = TRUE,
             !.get = 0, !.dontget = 0]

\* if (++this.unrecognisedCount <= 5) println(...); rc = false;
junrecognised(st, arg) ==
  [st EXCEPT !.unrecognisedCount = @ + 1,
             !.out = IF st.unrecognisedCount + 1 <= 5
                     THEN Append(@, Line("unrecognised", arg, 0)) ELSE @,
             !.rc = FALSE]

\* arg.substring(arg.indexOf('=') + 1) with the text after the last `=`.
long_value_last(arg) ==
  LET eqs == {i \in 1..Len(arg) : arg[i] = "="}
  IN Drop(arg, CHOOSE i \in eqs : \A k \in eqs : k <= i)

\* A value that is null when nothing follows the `=`.
long_value_or_null(arg) ==
  IF IndexOf(arg, "=") = Len(arg) THEN Null ELSE Drop(arg, IndexOf(arg, "="))

\* arg.substring(arg.indexOf('=') + 1)
long_value(arg) == Drop(arg, IndexOf(arg, "="))

\* Lines 947-983: a token of more than two characters whose first two are equal.
jparse_long(st, arg) ==
  LET opt == optmap_get(st, arg)
  IN IF st.dontget > 0 THEN [st EXCEPT !.dontget = @ - 1]
     ELSE IF opt # NullOption /\ opt.type = ARGUMENTLESS
     THEN [st EXCEPT !.optqueue = Append(@, arg), !.argqueue = Append(@, Null)]
     ELSE IF IndexOf(arg, "=") > 0
     THEN LET arg_opt     == SubSeq(arg, 1, IndexOf(arg, "=") - 1)
              arg_opt_opt == optmap_get(st, arg_opt)
          IN IF arg_opt_opt # NullOption /\ arg_opt_opt.type \in {ARGUMENTED, VARIADIC}
             THEN [st EXCEPT !.optqueue = Append(@, arg_opt),
                             !.argqueue = Append(@, long_value(arg)),
                             !.dashed = @ \/ arg_opt_opt.type = VARIADIC]
             ELSE junrecognised(st, arg)
     ELSE IF opt # NullOption /\ opt.type = ARGUMENTED
     THEN [st EXCEPT !.optqueue = Append(@, arg), !.get = @ + 1]
     ELSE IF opt # NullOption /\ opt.type = VARIADIC
     THEN [st EXCEPT !.optqueue = Append(@, arg), !.argqueue = Append(@, Null),
                     !.dashed = TRUE]
     ELSE junrecognised(st, arg)

RECURSIVE jparse_cluster_empty(_, _, _, _)
\* jparse_cluster with "" queued where the code queues null.
jparse_cluster_empty(st, arg, sign, i) ==
  IF i >= Len(arg) THEN st
  ELSE LET narg    == <<sign, arg[i + 1]>>
           opt     == optmap_get(st, narg)
           nargarg == Drop(arg, i + 1)
           st1     == [st EXCEPT !.optqueue = Append(@, narg)]
       IN IF opt # NullOption
          THEN IF opt.type = ARGUMENTLESS
               THEN jparse_cluster_empty([st1 EXCEPT !.argqueue = Append(@, <<>>)],
                                         arg, sign, i + 1)
               ELSE IF opt.type = ARGUMENTED
               THEN IF Len(nargarg) = 0 THEN [st1 EXCEPT !.get = @ + 1]
                    ELSE [st1 EXCEPT !.argqueue = Append(@, nargarg)]
               ELSE [st1 EXCEPT !.argqueue = Append(@, nargarg), !.dashed = TRUE]
          ELSE jparse_cluster_empty(junrecognised(st, arg), arg, sign, i + 1)

RECURSIVE jparse_cluster(_, _, _, _)
\* Lines 985-1015: the characters of a single-sigil token, from index i.
jparse_cluster(st, arg, sign, i) ==
  IF i >= Len(arg) THEN st
  ELSE LET narg    == <<sign, arg[i + 1]>>
           opt     == optmap_get(st, narg)
           nargarg == Drop(arg, i + 1)
           st1     == [st EXCEPT !.optqueue = Append(@, narg)]
       IN IF opt # NullOption
          THEN IF opt.type = ARGUMENTLESS
               THEN jparse_cluster([st1 EXCEPT !.argqueue = Append(@, Null)],
                                   arg, sign, i + 1)
               ELSE IF opt.type = ARGUMENTED
               THEN IF Len(nargarg) = 0 THEN [st1 EXCEPT !.get = @ + 1]
                    ELSE [st1 EXCEPT !.argqueue = Append(@, nargarg)]
               ELSE [st1 EXCEPT !.argqueue = Append(@, IF Len(nargarg) > 0
                                                        THEN nargarg ELSE Null),
                                !.dashed = TRUE]
          ELSE jparse_cluster(junrecognised(st, arg), arg, sign, i + 1)

\* Lines 933-1017: one iteration of the scan loop, on the token arg.
jparse_token(st, arg) ==
  IF st.get > 0 /\ st.dontget = 0
  THEN [st EXCEPT !.get = @ - 1, !.argqueue = Append(@, arg)]
  ELSE IF st.tmpdashed THEN [st EXCEPT !.files = Append(@, arg), !.tmpdashed = FALSE]
  ELSE IF st.dashed THEN [st EXCEPT !.files = Append(@, arg)]
  ELSE IF arg = T_pp THEN [st EXCEPT !.tmpdashed = TRUE]
  ELSE IF arg = T_dd THEN [st EXCEPT !.dashed = TRUE]
  ELSE IF Len(arg) > 1 /\ (arg[1] = "-" \/ arg[1] = "+")
  THEN IF Len(arg) > 2 /\ arg[2] = arg[1] THEN jparse_long(st, arg)
       ELSE jparse_cluster(st, arg, arg[1], 1)
  ELSE [st EXCEPT !.files = Append(@, arg)]

RECURSIVE jparse_deliver(_, _)
\* Lines 1020-1030: the queued uses are written to opts.
jparse_deliver(st, i) ==
  IF i >= Len(st.optqueue) THEN st
  ELSE LET opt == optmap_get(st, st.optqueue[i + 1]).standard
           arg == IF Len(st.argqueue) > i THEN st.argqueue[i + 1] ELSE Null
           o1  == IF opts_get(st, opt) = NullPtr
                  THEN HashMap_put(st.opts, opt, ArrayOf(<<>>)) ELSE st.opts
           o2  == IF Len(st.argqueue) >= i + 1
                  THEN HashMap_put(o1, opt, append(o1[opt], <<arg>>)) ELSE o1
       IN jparse_deliver([st EXCEPT !.opts = o2], i + 1)

\* jparse_variadic that keeps the entry's null element in front of the files.
jparse_variadic_append(st) ==
  LET hits == {i \in 1..Len(st.options) :
                 /\ st.options[i].type = VARIADIC
                 /\ opts_get(st, st.options[i].standard) # NullPtr}
  IN IF hits = {} THEN st
     ELSE LET opt    == st.options[CHOOSE h \in hits : \A g \in hits : h <= g]
              varopt == opts_get(st, opt.standard)
          IN IF varopt.elems = <<>> THEN [st EXCEPT !.thrown = TRUE]
             ELSE [st EXCEPT !.opts = HashMap_put(@, opt.standard, append(varopt, st.files)),
                             !.files = <<>>]

\* jparse_variadic that puts the files in place of the entry, whatever the
\* entry holds.
jparse_variadic_replace(st) ==
  LET hits == {i \in 1..Len(st.options) :
                 /\ st.options[i].type = VARIADIC
                 /\ opts_get(st, st.options[i].standard) # NullPtr}
  IN IF hits = {} THEN st
     ELSE LET opt == st.options[CHOOSE h \in hits : \A g \in hits : h <= g]
          IN [st EXCEPT !.opts = HashMap_put(@, opt.standard, ArrayOf(st.files)),
                        !.files = <<>>]

\* Lines 1032-1045: the first Variadic option that has an entry takes the
\* files. varopt[0] of an empty array throws.
jparse_variadic(st) ==
  LET hits == {i \in 1..Len(st.options) :
                 /\ st.options[i].type = VARIADIC
                 /\ opts_get(st, st.options[i].standard) # NullPtr}
  IN IF hits = {} THEN st
     ELSE LET opt    == st.options[CHOOSE h \in hits : \A g \in hits : h <= g]
              varopt == opts_get(st, opt.standard)
          IN IF varopt.elems = <<>> THEN [st EXCEPT !.thrown = TRUE]
             ELSE [st EXCEPT
                     !.opts = HashMap_put(@, opt.standard,
                                          IF varopt.elems[1] = Null THEN ArrayOf(st.files)
                                          ELSE append(varopt, st.files)),
                     !.files = <<>>]

\* Lines 1047-1062: message and the summary of the unrecognised options.
jparse_finish(st) ==
  LET more == st.unrecognisedCount - 5
  IN [st EXCEPT
        !.message = IF Len(st.files) > 0 THEN join_files(st.files, 1) ELSE @,
        !.out = IF st.unrecognisedCount > 5
                THEN Append(@, Line("more", IF more = 1 THEN Word_option ELSE Word_options, more))
                ELSE @]

RECURSIVE supportAlternatives_merging(_, _)
\* supportAlternatives_loop with the standard's values added to the entry
\* of the spelling rather than put in its place.
supportAlternatives_merging(st, keys) ==
  IF keys = <<>> THEN st
  ELSE LET opt == Head(keys)
           std == opts_get(st, optmap_get(st, opt).standard)
           old == opts_get(st, opt)
       IN supportAlternatives_merging(
            [st EXCEPT !.opts = HashMap_put(@, opt,
                                  IF std = NullPtr THEN old
                                  ELSE IF old = NullPtr THEN std
                                  ELSE append(old, std.elems))],
            Tail(keys))

RECURSIVE supportAlternatives_loop(_, _)
\* Lines 650-651, over the keys of optmap in the order `keys`.
supportAlternatives_loop(st, keys) ==
  IF keys = <<>> THEN st
  ELSE LET opt == Head(keys)
       IN supportAlternatives_loop(
            [st EXCEPT !.opts = HashMap_put(@, opt,
                                  opts_get(st, optmap_get(st, opt).standard))],
            Tail(keys))

\* supportAlternatives. The order of optmap.keySet() is the hash order; a
\* round writes the key it visits and reads the key of a standard spelling,
\* which it rewrites with its own value, so the order does not show.
supportAlternatives(st) == supportAlternatives_loop(st, SortedSeq(DOMAIN st.optmap))

RECURSIVE testAllowed_standard(_, _, _, _)
\* testAllowed_loop that looks the standard spelling of the key up in allowed.
testAllowed_standard(st, keys, allowed, rc) ==
  IF keys = <<>> THEN [st |-> st, rc |-> rc]
  ELSE LET opt == Head(keys)
           std == optmap_get(st, opt).standard
           bad == opts_get(st, opt) # NullPtr /\ std \notin allowed
           st1 == IF bad THEN [st EXCEPT !.out = Append(@, Line("context", opt, std))]
                  ELSE st
       IN testAllowed_standard(st1, Tail(keys), allowed, rc /\ ~bad)

RECURSIVE testAllowed_loop(_, _, _, _)
\* Lines 722-729, over the keys of opts in the order `keys`: a key that has
\* an array and is not in allowed is reported, with its standard spelling in
\* parentheses when that is another spelling.
testAllowed_loop(st, keys, allowed, rc) ==
  IF keys = <<>> THEN [st |-> st, rc |-> rc]
  ELSE LET opt == Head(keys)
           std == optmap_get(st, opt).standard
           bad == opts_get(st, opt) # NullPtr /\ opt \notin allowed
           st1 == IF bad THEN [st EXCEPT !.out = Append(@, Line("context", opt, std))]
                  ELSE st
       IN testAllowed_loop(st1, Tail(keys), allowed, rc /\ ~bad)

\* testAllowed(allowed)
testAllowed(st, allowed) == testAllowed_loop(st, SortedSeq(DOMAIN st.opts), allowed, TRUE)

----------------------------------------------------------------------------
(* Java: the program, as a state machine                                   *)

JMaxArgs   == 3
AltMaxArgs == 2

T_eqx == <<"=","x">>
T_hl  == <<"-","h","l">>

\* The values an option is given.
JValues == {T_x, T_h, T_eqx}

JTokens == {T_h, T_help, T_l, T_line, T_v, T_lines, T_x, T_dd, T_pp, T_foo, T_eqx, T_hl}
           \cup {T_line \o <<"=">> \o v : v \in JValues}
           \cup {T_l \o v : v \in JValues}

JInputs == SeqsUpTo(JTokens, JMaxArgs)

\* Command lines of tokens with attached values: a value that holds a `=`,
\* an empty value, and the Variadic option with a value and without.
JAttachedMaxArgs == 3

JAttachedTokens ==
  {T_x, T_h, T_dd, T_lines, T_v \o T_x,
   T_line \o <<"=">>, T_line \o <<"=">> \o T_x, T_line \o <<"=">> \o T_x \o T_eqx,
   T_lines \o <<"=">>, T_lines \o <<"=">> \o T_x}

JAttachedInputs == SeqsUpTo(JAttachedTokens, JAttachedMaxArgs)

\* Command lines of a program that calls testAllowed.
JTestMaxArgs == 2

JTestTokens == {T_h, T_help, T_l \o T_x, T_x}

JTestInputs == SeqsUpTo(JTestTokens, JTestMaxArgs)

\* The token vectors a program of kind `inputs` is run on.
JInputsOf(inputs) ==
  IF inputs = "all" THEN JInputs
  ELSE IF inputs = "attached" THEN JAttachedInputs
  ELSE IF inputs = "test" THEN JTestInputs
  ELSE SeqsUpTo(JTokens, AltMaxArgs)

JInit == /\ jp = ArgParser(3, "all")
         /\ cp = Off
         /\ bp = Off

JAttachedInit == /\ jp = ArgParser(3, "attached")
                 /\ cp = Off
                 /\ bp = Off

JAdd ==
  /\ jp.pc = "declare"
  /\ Len(jp.options) < jp.ndecl
  /\ LET d == Declared[Len(jp.options) + 1]
     IN jp' = add(jp, Option(d.type, d.alternatives, d.standard), T_helptext)
  /\ UNCHANGED <<cp, bp>>

JParseBegin ==
  /\ jp.pc = "declare"
  /\ Len(jp.options) = jp.ndecl
  /\ \E argv \in JInputsOf(jp.inputs) :
       jp' = [jparse_begin(jp, argv) EXCEPT !.pc = "scan"]
  /\ UNCHANGED <<cp, bp>>

JScanToken ==
  /\ jp.pc = "scan"
  /\ jp.pos < Len(jp.arguments)
  /\ jp' = [jparse_token(jp, jp.arguments[jp.pos + 1]) EXCEPT !.pos = jp.pos + 1]
  /\ UNCHANGED <<cp, bp>>

JDeliver ==
  /\ jp.pc = "scan"
  /\ jp.pos = Len(jp.arguments)
  /\ jp' = [jparse_deliver(jp, 0) EXCEPT !.pc = "variadic"]
  /\ UNCHANGED <<cp, bp>>

JVariadic ==
  /\ jp.pc = "variadic"
  /\ LET st == jparse_variadic(jp)
     IN jp' = [st EXCEPT !.pc = IF st.thrown THEN "thrown" ELSE "message"]
  /\ UNCHANGED <<cp, bp>>

JFinish ==
  /\ jp.pc = "message"
  /\ jp' = [jparse_finish(jp) EXCEPT !.pc = "done"]
  /\ UNCHANGED <<cp, bp>>

JSupportAlternatives ==
  /\ jp.pc = "done"
  /\ jp.resolved < MaxResolve
  /\ jp' = [supportAlternatives(jp) EXCEPT !.resolved = @ + 1]
  /\ UNCHANGED <<cp, bp>>

JNext == \/ JAdd
         \/ JParseBegin
         \/ JScanToken
         \/ JDeliver
         \/ JVariadic
         \/ JFinish
         \/ JSupportAlternatives

SpecJava == JInit /\ [][JNext]_vars

SpecJavaAttached == JAttachedInit /\ [][JNext]_vars

\* A program that calls testAllowed after the parse, before or after it has
\* called supportAlternatives. jp.test is the call: the set it was given, the
\* value it returned and the number of lines it wrote.
AllowedSets == {{}, {T_h}, {T_h, T_l}, {T_h, T_help}, {T_h, T_help, T_l, T_line}}

JTestInit == /\ jp = ArgParser(3, "test")
             /\ cp = Off
             /\ bp = Off

JTestAllowed ==
  /\ jp.pc = "done"
  /\ \E allowed \in AllowedSets :
       LET r == testAllowed(jp, allowed)
       IN jp' = [r.st EXCEPT !.pc = "tested",
                            !.test = [fn |-> "allowed", list |-> allowed, rc |-> r.rc,
                                      wrote |-> Len(r.st.out) - Len(jp.out)]]
  /\ UNCHANGED <<cp, bp>>

JTestNext == JNext \/ JTestAllowed

SpecJavaTest == JTestInit /\ [][JTestNext]_vars

----------------------------------------------------------------------------
(* Bash: argparser.bash, the registry and the result store                 *)
(*                                                                         *)
(* st.optmap models the directory ${args_optmap}: one file per spelling,   *)
(* whose lines are the standard spelling, the type, the stickless function *)
(* (optionally argumented options only) and the trigger. st.opts models    *)
(* the directory ${args_opts}: an entry is a directory holding the files   *)
(* `data` and `null` (sequences of lines), or a symbolic link to another   *)
(* path of ${args_opts}.                                                   *)

args_ARGUMENTLESS  == 0
args_ARGUMENTED    == 1
args_OPTARGUMENTED == 2
args_VARIADIC      == 3

\* A file that does not exist.
Absent == << <<"ABSENT">> >>

Dir(data, null) == [kind |-> "dir",  target |-> Null,   data |-> data,   null |-> null]
Link(target)    == [kind |-> "link", target |-> target, data |-> Absent, null |-> Absent]

RECURSIVE resolve(_, _, _)
\* The directory a path of ${args_opts} leads to when symbolic links are
\* followed, Null when it leads nowhere (no entry, a dangling link, a loop).
resolve(fs, name, hops) ==
  IF name \notin DOMAIN fs \/ hops = 0 THEN Null
  ELSE IF fs[name].kind = "dir" THEN name
  ELSE resolve(fs, fs[name].target, hops - 1)

\* [ -e "${args_opts}/name" ]
exists(fs, name) == resolve(fs, name, Cardinality(DOMAIN fs)) # Null

\* What `echo "$arg"` writes, as lines: echo takes -n, -e and -E for options.
echo(arg) ==
  IF Len(arg) >= 2 /\ arg[1] = "-" /\ \A i \in 2..Len(arg) : arg[i] \in {"n", "e", "E"}
  THEN IF \E i \in 2..Len(arg) : arg[i] = "n" THEN <<>> ELSE << <<>> >>
  ELSE <<arg>>

\* echo ... >> "${args_opts}/name/data"; echo ... >> "${args_opts}/name/null"
append_data_null(fs, name, data, null) ==
  LET d == resolve(fs, name, Cardinality(DOMAIN fs))
  IN IF d = Null THEN fs
     ELSE [fs EXCEPT ![d].data = (IF @ = Absent THEN <<>> ELSE @) \o data,
                     ![d].null = (IF @ = Absent THEN <<>> ELSE @) \o null]

\* mkdir -p "${args_opts}/name"; echo -n > .../data; echo -n > .../null
mkdir_entry(fs, name) ==
  IF name \in DOMAIN fs THEN fs ELSE (name :> Dir(<<>>, <<>>)) @@ fs

\* args_option has
args_option_has(st, name) == exists(st.opts, name)

\* args_option count: the words of the line it prints, and its exit status.
\* wc is not run when the `null` file cannot be opened, and an empty line is
\* printed.
args_option_count(st, name) ==
  LET d == resolve(st.opts, name, Cardinality(DOMAIN st.opts))
  IN IF d = Null THEN [out |-> <<0>>, rc |-> 1]
     ELSE IF st.opts[d].null = Absent THEN [out |-> <<>>, rc |-> 0]
     ELSE [out |-> <<Len(st.opts[d].null)>>, rc |-> 0]

\* args_option get: the lines of the `data` file
args_option_get(st, name) ==
  LET d == resolve(st.opts, name, Cardinality(DOMAIN st.opts))
  IN IF d = Null \/ st.opts[d].data = Absent THEN <<>> ELSE st.opts[d].data

\* args_noop, the default trigger and expander
args_noop == <<"a","r","g","s","_","n","o","o","p">>

\* An evaluator that lets every token be the value.
args_stickless_any(arg) == TRUE

\* args_stickless: whether the token may be the value of the option
args_stickless(arg) == ~(Len(arg) >= 1 /\ arg[1] \in {"-", "+"})

\* "$trigger" opt std [value]: a trigger other than args_noop is the program's
\* function, which records what it is called with; value is Null when the
\* trigger is called with two arguments.
call_trigger(st, trigger, opt, std, value) ==
  IF trigger = args_noop THEN st
  ELSE [st EXCEPT !.triggered = Append(@, [opt |-> opt, std |-> std, value |-> value])]

\* An expander that never finds an expansion.
args_standard_abbreviations_none(arg, candidates) == [rc |-> 1, out |-> <<>>]

\* args_standard_abbreviations: the one candidate that arg is a prefix of,
\* as echo prints it
args_standard_abbreviations(arg, candidates) ==
  LET hits == {c \in candidates : IsPrefix(arg, c)}
      said == echo(CHOOSE c \in hits : TRUE)
  IN IF Cardinality(hits) = 1
     THEN [rc |-> 0, out |-> IF said = <<>> THEN <<>> ELSE said[1]]
     ELSE [rc |-> 1, out |-> <<>>]

\* args__abbreviations: the expander is handed the names in ${args_optmap}.
\* args_noop prints nothing and succeeds.
args__abbreviations(st, arg) ==
  IF st.args_abbreviations = args_noop THEN [rc |-> 0, out |-> <<>>]
  ELSE args_standard_abbreviations(arg, DOMAIN st.optmap)

\* args_init
bash_args_init(ndecl, alternative, abbreviations, inputs) ==
  [pc |-> "declare", ndecl |-> ndecl, inputs |-> inputs,
   args_options |-> <<>>, optmap |-> <<>>, opts |-> <<>>,
   args_files |-> <<>>, args_alternative |-> alternative,
   args_abbreviations |-> IF abbreviations = <<>> THEN args_noop ELSE abbreviations,
   args_unrecognised_count |-> 0, args_arguments |-> <<>>, args_argcount |-> 0,
   args_message |-> <<>>, args_has_message |-> 0,
   todo |-> <<>>, nulqueue |-> <<>>, argqueue |-> <<>>, optqueue |-> <<>>,
   dashed |-> 0, tmpdashed |-> 0, get |-> 0, dontget |-> 0, rc |-> 0,
   out |-> <<>>, triggered |-> <<>>, resolved |-> 0]

RECURSIVE write_optmap(_, _, _, _)
write_optmap(optmap, alts, file, i) ==
  IF i > Len(alts) THEN optmap
  ELSE write_optmap((alts[i] :> file) @@ optmap, alts, file, i + 1)

\* args_add_argumentless / args_add_argumented / args_add_optargumented /
\* args_add_variadic: stickless is read for optionally argumented options only.
args_add(st, type, stickless, trigger, default, alts) ==
  LET std  == alts[(IF default < 0 THEN Len(alts) + default ELSE default) + 1]
      file == [std |-> std, type |-> type,
               stickless |-> IF type = args_OPTARGUMENTED THEN stickless ELSE Null,
               trigger |-> IF trigger = <<>> THEN args_noop ELSE trigger]
  IN [st EXCEPT !.args_options = Append(@, [type |-> type, std |-> std, alts |-> alts]),
                !.optmap = write_optmap(@, alts, file, 1)]

RECURSIVE link_alternatives(_, _, _)
\* Lines 228-232: for every name in ${args_optmap} for which [ -e ] fails on
\* the path in ${args_opts}, ln -s; ln fails when the path is a link already.
link_alternatives(st, fs, names) ==
  IF names = <<>> THEN fs
  ELSE LET alt == Head(names)
           fs1 == IF ~exists(fs, alt) /\ alt \notin DOMAIN fs
                  THEN (alt :> Link(st.optmap[alt].std)) @@ fs ELSE fs
       IN link_alternatives(st, fs1, Tail(names))

\* args_support_alternatives
bash_args_support_alternatives(st) ==
  [st EXCEPT !.opts = link_alternatives(st, st.opts, SortedSeq(DOMAIN st.optmap))]

----------------------------------------------------------------------------
(* Bash: args_parse                                                        *)
(*                                                                         *)
(* st.todo is "$@", the tokens that are still to be read.                  *)

\* ${arg/+/-}: arg with its first `+` replaced by `-`
replace_plus(arg) ==
  IF IndexOf(arg, "+") = 0 THEN arg
  ELSE [i \in 1..Len(arg) |-> IF i = IndexOf(arg, "+") THEN "-" ELSE arg[i]]

\* Lines 641-643 and the locals of line 638-639; args_files is not reset.
bparse_begin(st, argv) ==
  [st EXCEPT !.args_argcount = Len(argv), !.args_unrecognised_count = 0,
             !.args_arguments = argv, !.todo = argv,
             !.nulqueue = <<>>, !.argqueue = <<>>, !.optqueue = <<>>,
             !.dashed = 0, !.tmpdashed = 0, !.get = 0, !.dontget = 0, !.rc = 0]

\* argqueue+=( value ); nulqueue+=( null )
push_value(st, value, null) ==
  [st EXCEPT !.argqueue = Append(@, value), !.nulqueue = Append(@, null)]

\* Lines 730-734: the count, the diagnostic for the first five, rc=1
bunrecognised(st, arg) ==
  [st EXCEPT !.args_unrecognised_count = @ + 1,
             !.out = IF st.args_unrecognised_count + 1 <= 5
                     THEN Append(@, Line("unrecognised", arg, 0)) ELSE @,
             !.rc = 1]

\* Lines 684-749: a token taken for a long option.
bparse_long(st, arg) ==
  IF st.dontget # 0 THEN [st EXCEPT !.dontget = @ - 1]
  ELSE IF arg \in DOMAIN st.optmap
  THEN LET m   == st.optmap[arg]
           st1 == [st EXCEPT !.optqueue = Append(@, arg)]
       IN IF m.type = args_ARGUMENTLESS
          THEN call_trigger(push_value(st1, <<>>, 1), m.trigger, arg, m.std, Null)
          ELSE IF m.type <= args_OPTARGUMENTED THEN [st1 EXCEPT !.get = @ + 1]
          ELSE [push_value(st1, <<>>, 1) EXCEPT !.dashed = 1]
  ELSE IF IndexOf(arg, "=") > 0
  THEN LET name  == SubSeq(arg, 1, IndexOf(arg, "=") - 1)
           value == Drop(arg, IndexOf(arg, "="))
       IN IF name \in DOMAIN st.optmap /\ st.optmap[name].type >= args_ARGUMENTED
          THEN LET m   == st.optmap[name]
                   st1 == push_value([st EXCEPT !.optqueue = Append(@, name)], value, 0)
               IN IF m.type = args_VARIADIC
                  THEN call_trigger([st1 EXCEPT !.dashed = 1], m.trigger, name, m.std, Null)
                  ELSE call_trigger(st1, m.trigger, name, m.std, value)
          ELSE LET full == args__abbreviations(st, name)
               IN IF full.rc = 0
                  THEN [st EXCEPT !.todo = <<full.out \o <<"=">> \o value>> \o @]
                  ELSE bunrecognised(st, name)
  ELSE LET full == args__abbreviations(st, arg)
       IN IF full.rc = 0 THEN [st EXCEPT !.todo = <<full.out>> \o @]
          ELSE bunrecognised(st, arg)

RECURSIVE bparse_cluster(_, _, _, _)
\* Lines 751-793: the characters of the token from index i, each looked up
\* with the sign in front.
bparse_cluster(st, arg, sign, i) ==
  IF i = Len(arg) THEN st
  ELSE LET name == <<sign, arg[i + 1]>>
           j    == i + 1
       IN IF name \in DOMAIN st.optmap
          THEN LET m   == st.optmap[name]
                   st1 == [st EXCEPT !.optqueue = Append(@, name)]
               IN IF m.type = args_ARGUMENTLESS
                  THEN bparse_cluster(
                         call_trigger(push_value(st1, <<>>, 1), m.trigger, name, m.std, Null),
                         arg, sign, j)
                  ELSE IF m.type < args_VARIADIC
                  THEN IF Len(arg) = j THEN [st1 EXCEPT !.get = @ + 1]
                       ELSE push_value(st1, Drop(arg, j), 0)
                  ELSE call_trigger(
                         [(IF Len(arg) = j THEN push_value(st1, <<>>, 1)
                           ELSE push_value(st1, Drop(arg, j), 0)) EXCEPT !.dashed = 1],
                         m.trigger, name, m.std, Null)
          ELSE bparse_cluster(bunrecognised(st, name), arg, sign, j)

\* Lines 673-797: the token is classified.
bparse_classify(st, arg) ==
  IF st.tmpdashed = 1 THEN [st EXCEPT !.args_files = Append(@, arg), !.tmpdashed = 0]
  ELSE IF st.dashed = 1 THEN [st EXCEPT !.args_files = Append(@, arg)]
  ELSE IF arg = T_pp THEN [st EXCEPT !.tmpdashed = 1]
  ELSE IF arg = T_dd THEN [st EXCEPT !.dashed = 1]
  ELSE IF Len(arg) > 1 /\ replace_plus(arg)[1] = "-"
  THEN IF (st.args_alternative \/ Len(arg) > 2) /\ arg[1] = arg[2]
       THEN bparse_long(st, arg)
       ELSE bparse_cluster(st, arg, replace_plus(arg)[1], 1)
  ELSE [st EXCEPT !.args_files = Append(@, arg)]

\* Lines 647-797: one iteration of the inner loop, on the token arg that was
\* shifted off "$@". A pending option takes the token unless it is optionally
\* argumented and its stickless function rejects the token, which is then
\* classified.
bparse_token(st, arg) ==
  IF st.get # 0 /\ st.dontget = 0
  THEN LET opt_arg == st.optqueue[Len(st.optqueue) - st.get + 1]
           m       == st.optmap[opt_arg]
           st1     == [st EXCEPT !.get = @ - 1]
       IN IF m.type = args_OPTARGUMENTED /\ ~args_stickless(arg)
          THEN bparse_classify(
                 push_value(call_trigger(st1, m.trigger, opt_arg, m.std, Null), <<>>, 1), arg)
          ELSE push_value(call_trigger(st1, m.trigger, opt_arg, m.std, arg), arg, 0)
  ELSE bparse_classify(st, arg)

RECURSIVE bparse_deliver(_, _)
\* Lines 803-827: every queued use becomes a line of `data` and of `null`
\* under the standard spelling.
bparse_deliver(st, i) ==
  IF i >= Len(st.optqueue) THEN st
  ELSE LET opt     == st.optqueue[i + 1]
           m       == st.optmap[opt]
           argnull == IF Len(st.argqueue) > i /\ st.nulqueue[i + 1] = 1 THEN 1 ELSE 0
           arg     == IF argnull = 0 /\ Len(st.argqueue) > i THEN st.argqueue[i + 1]
                      ELSE <<>>
           st1     == IF Len(st.argqueue) <= i
                      THEN call_trigger(st, m.trigger, opt, m.std, Null) ELSE st
           fs1     == IF ~exists(st.opts, m.std) THEN mkdir_entry(st.opts, m.std)
                      ELSE st.opts
           fs2     == append_data_null(fs1, m.std, echo(arg),
                                       <<IF argnull = 1 THEN <<"1">> ELSE <<"0">> >>)
       IN bparse_deliver([st1 EXCEPT !.opts = fs2], i + 1)

RECURSIVE append_bare_files(_, _, _, _)
\* Lines 840-843
append_bare_files(fs, std, files, i) ==
  IF i > Len(files) THEN fs
  ELSE append_bare_files(append_data_null(fs, std, echo(files[i]), << <<"0">> >>),
                         std, files, i + 1)

\* Lines 829-847: the first Variadic option with an entry takes the bare
\* files; `data` and `null` are removed first when the first use had no value.
bparse_variadic(st) ==
  LET hits == {i \in 1..Len(st.args_options) :
                 /\ st.args_options[i].type = args_VARIADIC
                 /\ exists(st.opts, st.args_options[i].std)}
  IN IF hits = {} THEN st
     ELSE LET std == st.args_options[CHOOSE h \in hits : \A g \in hits : h <= g].std
              d   == resolve(st.opts, std, Cardinality(DOMAIN st.opts))
              fs1 == IF st.opts[d].null # Absent /\ Len(st.opts[d].null) > 0
                        /\ st.opts[d].null[1] = <<"1">>
                     THEN [st.opts EXCEPT ![d].data = Absent, ![d].null = Absent]
                     ELSE st.opts
          IN [st EXCEPT !.opts = append_bare_files(fs1, std, st.args_files, 1),
                        !.args_files = <<>>]

\* Lines 849-863: args_message, args_has_message and the summary, which
\* prints args_unrecognised_count - 1.
bparse_finish(st) ==
  LET more == st.args_unrecognised_count - 1
  IN [st EXCEPT
        !.args_message = join_files(st.args_files, 1),
        !.args_has_message = IF Len(st.args_files) = 0 THEN 0 ELSE 1,
        !.out = IF st.args_unrecognised_count > 5
                THEN Append(@, Line("more", IF more # 1 THEN Word_options ELSE Word_option,
                                    more))
                ELSE @]

RECURSIVE bparse_scan(_, _)
\* Lines 645-801: the scan loops, for at most `rounds` tokens taken from "$@".
bparse_scan(st, rounds) ==
  IF st.todo = <<>> \/ rounds = 0 THEN st
  ELSE bparse_scan(bparse_token([st EXCEPT !.todo = Tail(@)], Head(st.todo)), rounds - 1)

\* args_parse, when the scan ends within `rounds` tokens
args_parse_run(st, argv, rounds) ==
  bparse_finish(bparse_variadic(bparse_deliver(bparse_scan(bparse_begin(st, argv), rounds), 0)))

----------------------------------------------------------------------------
(* Bash: the program, as a state machine                                   *)

BMaxArgs      == 3
BMaxUnknown   == 7

T_o     == <<"-","o">>
T_opt   == <<"-","-","o","p","t">>
T_he    == <<"-","-","h","e">>
T_plush == <<"+","h">>
T_baz   == <<"-","-","b","a","z">>
T_op    == <<"-","-","o","p">>

\* The program's trigger function.
on_use == <<"o","n","_","u","s","e">>

\* The options the bash program declares: those of Declared and an
\* optionally argumented {-o, --opt}.
BDeclared ==
  << [type |-> args_ARGUMENTLESS,  alts |-> <<T_h, T_help>>],
     [type |-> args_ARGUMENTED,    alts |-> <<T_l, T_line>>],
     [type |-> args_VARIADIC,      alts |-> <<T_v, T_lines>>],
     [type |-> args_OPTARGUMENTED, alts |-> <<T_o, T_opt>>] >>

BTokens == {T_h, T_help, T_l, T_line, T_v, T_lines, T_o, T_x, T_dd, T_pp, T_foo,
            T_he, T_plush, T_line \o <<"=">> \o T_x, T_he \o <<"=">> \o T_x, T_l \o T_x,
            T_op \o <<"=">> \o T_x}

BInputs == SeqsUpTo(BTokens, BMaxArgs)

\* Unknown long tokens, none a prefix of a declared spelling, and a file.
BUnknownTokens == {T_foo, T_bar, T_baz}

BUnknownInputs == {a \in SeqsUpTo(BUnknownTokens \cup {T_x}, BMaxUnknown) :
                     \A i \in 1..(Len(a) - 1) : a[i] = T_x => a[i + 1] = T_x}

\* Tokens with a name=value form or an abbreviated name.
BAbbrevMaxArgs == 2

BAbbrevTokens == {T_he, T_x, T_l,
                  T_he \o <<"=">> \o T_x, T_help \o <<"=">> \o T_x,
                  T_op \o <<"=">> \o T_x, T_opt \o <<"=">> \o T_x,
                  T_line \o <<"=">> \o T_x}

BAbbrevInputs == SeqsUpTo(BAbbrevTokens, BAbbrevMaxArgs)

\* Command lines around the optionally argumented option: its two spellings,
\* a value, and tokens that start with a sigil.
BOptMaxArgs == 2

BOptTokens == {T_o, T_opt, T_x, T_h, T_help, T_l, T_v, T_dd, T_pp, T_foo}

BOptInputs == SeqsUpTo(BOptTokens, BOptMaxArgs)

\* The token vectors a program of kind `inputs` is run on.
BInputsOf(inputs) ==
  IF inputs = "all" THEN BInputs
  ELSE IF inputs = "unknown" THEN BUnknownInputs
  ELSE IF inputs = "abbrev" THEN BAbbrevInputs
  ELSE IF inputs = "opt" THEN BOptInputs
  ELSE SeqsUpTo(BTokens, AltMaxArgs)

args_standard_abbreviations_name ==
  <<"a","r","g","s","_","s","t","a","n","d","a","r","d">>

BInit == /\ bp \in {bash_args_init(4, alt, abbr, "all") :
                      alt \in BOOLEAN, abbr \in {<<>>, args_standard_abbreviations_name}}
         /\ cp = Off
         /\ jp = Off

BUnknownInit == /\ bp = bash_args_init(4, FALSE, args_standard_abbreviations_name, "unknown")
                /\ cp = Off
                /\ jp = Off

BAdd ==
  /\ bp.pc = "declare"
  /\ Len(bp.args_options) < bp.ndecl
  /\ LET d == BDeclared[Len(bp.args_options) + 1]
     IN bp' = args_add(bp, d.type, <<>>, on_use, 0, d.alts)
  /\ UNCHANGED <<cp, jp>>

BParseBegin ==
  /\ bp.pc = "declare"
  /\ Len(bp.args_options) = bp.ndecl
  /\ \E argv \in BInputsOf(bp.inputs) :
       bp' = [bparse_begin(bp, argv) EXCEPT !.pc = "scan"]
  /\ UNCHANGED <<cp, jp>>

BScanToken ==
  /\ bp.pc = "scan"
  /\ bp.todo # <<>>
  /\ bp' = bparse_token([bp EXCEPT !.todo = Tail(@)], Head(bp.todo))
  /\ UNCHANGED <<cp, jp>>

BDeliver ==
  /\ bp.pc = "scan"
  /\ bp.todo = <<>>
  /\ bp' = [bparse_deliver(bp, 0) EXCEPT !.pc = "variadic"]
  /\ UNCHANGED <<cp, jp>>

BVariadic ==
  /\ bp.pc = "variadic"
  /\ bp' = [bparse_variadic(bp) EXCEPT !.pc = "message"]
  /\ UNCHANGED <<cp, jp>>

BFinish ==
  /\ bp.pc = "message"
  /\ bp' = [bparse_finish(bp) EXCEPT !.pc = "done"]
  /\ UNCHANGED <<cp, jp>>

BSupportAlternatives ==
  /\ bp.pc = "done"
  /\ bp.resolved < MaxResolve
  /\ bp' = [bash_args_support_alternatives(bp) EXCEPT !.resolved = @ + 1]
  /\ UNCHANGED <<cp, jp>>

BNext == \/ BAdd
         \/ BParseBegin
         \/ BScanToken
         \/ BDeliver
         \/ BVariadic
         \/ BFinish
         \/ BSupportAlternatives

SpecBash == BInit /\ [][BNext]_vars

SpecBashUnknown == BUnknownInit /\ [][BNext]_vars

\* A program that passes args_standard_abbreviations to args_init.
BAbbrevInit ==
  /\ bp \in {bash_args_init(4, alt, args_standard_abbreviations_name, "abbrev") :
               alt \in BOOLEAN}
  /\ cp = Off
  /\ jp = Off

SpecBashAbbrev == BAbbrevInit /\ [][BNext]_vars

BOptInit == /\ bp \in {bash_args_init(4, alt, abbr, "opt") :
                         alt \in BOOLEAN, abbr \in {<<>>, args_standard_abbreviations_name}}
            /\ cp = Off
            /\ jp = Off

SpecBashOpt == BOptInit /\ [][BNext]_vars

\* A program in Java or in Bash, run on a short token vector.
AltInit ==
  \/ /\ jp = ArgParser(3, "short")
     /\ cp = Off
     /\ bp = Off
  \/ /\ bp \in {bash_args_init(4, alt, abbr, "short") :
                   alt \in BOOLEAN, abbr \in {<<>>, args_standard_abbreviations_name}}
     /\ cp = Off
     /\ jp = Off

AltNext == JNext \/ BNext

SpecAlt == AltInit /\ [][AltNext]_vars

----------------------------------------------------------------------------
(* C: properties of args_parse and args_support_alternatives               *)

\* C1: with {-h, --help} and {-l, --line} declared, args_parse on
\* [-h, --line, x, extra] returns true with args_unrecognised_count 0, -h is
\* recorded once with the null value, -l once with the value "x", and the
\* bare files are [extra].
C1_ExampleParse ==
  (cp.pc = "done" /\ cp.argv = <<T_h, T_line, T_x, T_extra>>) =>
    /\ cp.rc
    /\ cp.args_unrecognised_count = 0
    /\ args_opts_get_count(cp, T_h) = 1
    /\ args_opts_get(cp, T_h) = ArrayOf(<<Null>>)
    /\ args_opts_get_count(cp, T_l) = 1
    /\ args_opts_get(cp, T_l) = ArrayOf(<<T_x>>)
    /\ files_of(cp) = <<T_extra>>

\* C4: after args_parse and args_support_alternatives every registered
\* spelling answers args_opts_get_count and args_opts_get as the standard
\* spelling of its option does, and an Argumentless option given once by any
\* of its alternatives is reported used under each of its spellings.
C4_AlternativesQueryable ==
  (cp.pc = "done" /\ cp.resolved >= 1) =>
    \A i \in 1..cp.args_options_count :
      LET option == cp.args_options[i]
          given  == /\ option.type = ARGUMENTLESS
                    /\ Len(cp.argv) = 1
                    /\ \E k \in 1..Len(option.alternatives) :
                         cp.argv[1] = option.alternatives[k]
      IN \A k \in 1..Len(option.alternatives) :
           LET s == option.alternatives[k]
           IN /\ args_opts_get_count(cp, s) = args_opts_get_count(cp, option.standard)
              /\ args_opts_get(cp, s) = args_opts_get(cp, option.standard)
              /\ given => args_opts_used(cp, s)

\* No value is pending: the scan classifies the next token.
CClassifies(st) == ~(st.get > 0 /\ st.dontget = 0)

\* Normal state: the next token is classified by its spelling.
CNormal(st) == CClassifies(st) /\ ~st.dashed /\ ~st.tmpdashed

\* C6: a `--` read in Normal state turns the scan to Dashed, in which every
\* token read is appended to the bare files as it is and the scan stays
\* Dashed; a `++` read in Normal state makes exactly the next token a bare
\* file, after which the scan is in Normal state again.
C6_Dashes ==
  [][(cp.pc = "scan" /\ cp'.pc = "scan") =>
       LET tok == cp.argv[cp.pos + 1]
       IN /\ (CNormal(cp) /\ tok = T_dd) =>
               /\ cp'.dashed /\ ~cp'.tmpdashed /\ CClassifies(cp')
               /\ files_of(cp') = files_of(cp)
          /\ (CClassifies(cp) /\ cp.dashed /\ ~cp.tmpdashed) =>
               /\ files_of(cp') = Append(files_of(cp), tok)
               /\ cp'.dashed /\ ~cp'.tmpdashed /\ CClassifies(cp')
               /\ cp'.args_unrecognised_count = cp.args_unrecognised_count
               /\ cp'.optqueue = cp.optqueue
          /\ (CNormal(cp) /\ tok = T_pp) =>
               /\ cp'.tmpdashed /\ ~cp'.dashed /\ CClassifies(cp')
               /\ files_of(cp') = files_of(cp)
          /\ (CClassifies(cp) /\ cp.tmpdashed /\ ~cp.dashed) =>
               /\ files_of(cp') = Append(files_of(cp), tok)
               /\ CNormal(cp')
               /\ cp'.args_unrecognised_count = cp.args_unrecognised_count
               /\ cp'.optqueue = cp.optqueue
     ]_vars

\* `++ -- -- -h`: the first `--` is the one token `++` forces, the second is
\* classified and forces `-h`.
C6_Witness ==
  /\ cp.pc = "scan" /\ cp.pos = 4
  /\ cp.argv = <<T_pp, T_dd, T_dd, T_h>>
  /\ files_of(cp) = <<T_dd, T_h>>
  /\ cp.dashed /\ ~cp.tmpdashed

\* The token vector names no alternative of a Variadic option.
NoVariadicUse(st) ==
  \A t \in 1..Len(st.argv) : \A i \in 1..st.args_options_count :
    st.args_options[i].type = VARIADIC =>
      \A k \in 1..Len(st.args_options[i].alternatives) :
        ~IsPrefix(st.args_options[i].alternatives[k], st.argv[t])

C10_ReturnValue ==
  /\ cp.pc = "done" => (cp.rc <=> cp.args_unrecognised_count = 0)
  /\ cp.pc \in {"variadic", "message", "done"} => cp.pos = Len(cp.argv)

\* An unrecognised token in front: the scan went on to `--` and the file.
C10_Witness ==
  /\ cp.pc = "done"
  /\ cp.argv = <<T_foo, T_dd, T_x>>
  /\ ~cp.rc /\ cp.args_unrecognised_count = 1
  /\ files_of(cp) = <<T_x>>

----------------------------------------------------------------------------
(* Java: properties of ArgParser.parse                                     *)

IsLong(name)  == Len(name) > 2 /\ name[2] = name[1]
IsShort(name) == Len(name) = 2 /\ name[2] # name[1]

\* The spellings of an option, as a set.
Spellings(option) == {option.alternatives[k] : k \in 1..Len(option.alternatives)}

\* The outcome of a parse in which `standard` was given once, with `value`,
\* and nothing else happened.
SingleEntry(st, standard, value) ==
  /\ st.opts = [k \in {st.options[i].standard : i \in 1..Len(st.options)} |->
                  IF k = standard THEN ArrayOf(<<value>>) ELSE NullPtr]
  /\ st.files = <<>>
  /\ st.unrecognisedCount = 0
  /\ st.rc

\* C2: for an Argumented option with long spelling l and short spelling s and
\* a non-empty value v, parse of [l, v], of [l=v] and of [sv] ends in the same
\* result: one entry, v, under the standard spelling, nothing unrecognised.
C2_ArgumentedForms ==
  (jp.pc = "done" /\ jp.resolved = 0) =>
    \A i \in 1..Len(jp.options) :
      jp.options[i].type = ARGUMENTED =>
        \A l \in Spellings(jp.options[i]), s \in Spellings(jp.options[i]), v \in JValues :
          (/\ IsLong(l) /\ IsShort(s)
           /\ jp.arguments \in {<<l, v>>, <<l \o <<"=">> \o v>>, <<s \o v>>})
            => SingleEntry(jp, jp.options[i].standard, v)

\* `--line==x`: the value is everything after the first `=`.
C2_Witness ==
  /\ jp.pc = "done"
  /\ jp.arguments = <<T_line \o <<"=">> \o T_eqx>>
  /\ opts_get(jp, T_l) = ArrayOf(<<T_eqx>>)

\* The number of uses of `option` the scan queued.
Uses(st, option) ==
  Cardinality({i \in 1..Len(st.optqueue) : st.optqueue[i] \in Spellings(option)})

\* C3: an Argumentless option that the token vector uses exactly once, by a
\* long token or inside a cluster, has after the parse an entry of exactly one
\* element, and the element is null, not "".
C3_ArgumentlessOnce ==
  (jp.pc \in {"message", "done"}) =>
    \A i \in 1..Len(jp.options) :
      (jp.options[i].type = ARGUMENTLESS /\ Uses(jp, jp.options[i]) = 1) =>
        /\ opts_get(jp, jp.options[i].standard) = ArrayOf(<<Null>>)
        /\ opts_get(jp, jp.options[i].standard) # ArrayOf(<<<<>>>>)

\* -h inside the cluster `-hl`, whose -l takes the next token.
C3_Witness ==
  /\ jp.pc = "done"
  /\ jp.arguments = <<T_hl, T_x>>
  /\ opts_get(jp, T_h) = ArrayOf(<<Null>>)
  /\ opts_get(jp, T_l) = ArrayOf(<<T_x>>)

\* Tokens that leave the scan in Normal state and the bare files empty.
JPlain == {T_h, T_help, T_foo}

----------------------------------------------------------------------------
(* Bash and Java: properties of the alternatives resolver and of the       *)
(* unrecognised-option summary                                             *)

\* C5: a run of the resolver after it has run once since the parse changes
\* nothing in the result store, in Java (supportAlternatives) and in Bash
\* (args_support_alternatives), and every query by any spelling answers as
\* before that run.
C5_ResolverIdempotent ==
  [][/\ (jp.pc = "done" /\ jp.resolved >= 1 /\ jp'.resolved = jp.resolved + 1) =>
          /\ jp'.opts = jp.opts
          /\ \A s \in DOMAIN jp.optmap : opts_get(jp', s) = opts_get(jp, s)
     /\ (bp.pc = "done" /\ bp.resolved >= 1 /\ bp'.resolved = bp.resolved + 1) =>
          /\ bp'.opts = bp.opts
          /\ \A s \in DOMAIN bp.optmap :
               /\ args_option_has(bp', s) = args_option_has(bp, s)
               /\ args_option_count(bp', s) = args_option_count(bp, s)
               /\ args_option_get(bp', s) = args_option_get(bp, s)
    ]_vars

\* The resolver has run twice after `--help -lx`: --help is a link to the
\* directory of -h, and the unused -v is a link to itself.
C5_Witness ==
  /\ bp.pc = "done" /\ bp.resolved = 2
  /\ bp.args_arguments = <<T_help, T_l \o T_x>>
  /\ bp.opts[T_help] = Link(T_h)
  /\ bp.opts[T_h] = Dir(<< <<>> >>, << <<"1">> >>)
  /\ bp.opts[T_v] = Link(T_v)
  /\ args_option_get(bp, T_line) = <<T_x>>

\* The lines of `kind` written to args_out.
OutLines(st, kind) == {i \in 1..Len(st.out) : st.out[i].kind = kind}

\* C9: a parse that counts k > 5 unrecognised options has written exactly 5
\* "unrecognised option" lines, then one summary line that reports k - 5
\* more, and returns failure.
C9_SummaryCitesExcess ==
  (bp.pc = "done" /\ bp.args_unrecognised_count > 5) =>
    /\ OutLines(bp, "unrecognised") = 1..5
    /\ OutLines(bp, "more") = {6}
    /\ bp.out[6].more = bp.args_unrecognised_count - 5
    /\ bp.rc = 1

\* Seven unknown long options: five diagnostics, then the summary line.
C9_Witness ==
  /\ bp.pc = "done"
  /\ bp.args_arguments = <<T_foo, T_bar, T_baz, T_foo, T_bar, T_baz, T_foo>>
  /\ bp.args_unrecognised_count = 7
  /\ OutLines(bp, "unrecognised") = 1..5
  /\ bp.out[6] = Line("more", Word_options, 6)
  /\ bp.rc = 1

----------------------------------------------------------------------------
(* C: properties of args_test_allowed, args_test_exclusiveness and of the  *)
(* result store                                                            *)

\* The strings of a list, as a set.
Range(list) == {list[k] : k \in 1..Len(list)}

\* The spellings of the set that are used (count > 0) in the result store.
UsedOf(st, names) == {e \in names : args_opts_used(st, e)}

\* C11: args_test_exclusiveness returns true iff at most one option of the
\* exclusive set is used (count > 0); when it returns false it has written one
\* line that names every used one; with {-h, -l} after both were parsed it
\* returns false.
C11_Exclusiveness ==
  cp.test.fn = "exclusiveness" =>
    LET used == UsedOf(cp, Range(cp.test.list))
    IN /\ cp.test.rc <=> Cardinality(used) <= 1
       /\ ~cp.test.rc =>
            /\ cp.test.wrote = 1
            /\ cp.out[Len(cp.out)].kind = "conflict"
            /\ Range(cp.out[Len(cp.out)].arg) = used
       /\ (cp.argv = <<T_h, T_l, T_x>> /\ Range(cp.test.list) = {T_h, T_l})
            => ~cp.test.rc

\* Two options of the exclusive set are used when the test is called.
C11_Witness ==
  /\ cp.test.fn = "exclusiveness"
  /\ Cardinality(UsedOf(cp, Range(cp.test.list))) >= 2

\* Every spelling the program declares or stores under.
StoreSpellings ==
  UNION {Range(StoreDeclared[k].alternatives) : k \in 1..Len(StoreDeclared)}
    \cup StoreNames

\* The used options that are not in the list given to the test.
Stray(st) == UsedOf(st, StoreSpellings) \ Range(st.test.list)

\* C12: args_test_allowed returns true iff every option with count > 0 in the
\* result store is in the allowed list, whatever the content and order of the
\* two lists, and writes exactly one line for each used option that is not.
C12_Allowed ==
  cp.test.fn = "allowed" =>
    /\ cp.test.rc <=> Stray(cp) = {}
    /\ cp.test.wrote = Cardinality(Stray(cp))

\* An option that is not in the allowed list is used when the test is called.
C12_Witness ==
  /\ cp.test.fn = "allowed"
  /\ Stray(cp) # {}

DeclaredSpellings(st) ==
  UNION {Range(st.args_options[i].alternatives) : i \in 1..st.args_options_count}

\* C15: after args_add_option and before args_parse, the standard spelling of
\* every declared option is contained in the result store with count 0 and is
\* not used, and no name that was never declared is contained.
C15_AddSeeds ==
  cp.pc = "declare" =>
    /\ \A i \in 1..cp.args_options_count :
         LET standard == cp.args_options[i].standard
         IN /\ args_opts_contains(cp, standard)
            /\ args_opts_get_count(cp, standard) = 0
            /\ ~args_opts_used(cp, standard)
    /\ \A name \in StoreSpellings \ DeclaredSpellings(cp) :
         ~args_opts_contains(cp, name)

\* Two options have been added and args_parse has not been called.
C15_Witness ==
  /\ cp.pc = "declare"
  /\ cp.args_options_count = 2
  /\ cp.args_options[1].standard # cp.args_options[2].standard

RECURSIVE Flatten(_)
\* The concatenation of a sequence of lists.
Flatten(lists) ==
  IF lists = <<>> THEN <<>> ELSE Head(lists) \o Flatten(Tail(lists))

RECURSIVE FirstSeen(_)
\* A list without the repetitions of its elements.
FirstSeen(list) ==
  IF list = <<>> THEN <<>>
  ELSE LET front == FirstSeen(SubSeq(list, 1, Len(list) - 1))
           x     == list[Len(list)]
       IN IF x \in Range(front) THEN front ELSE Append(front, x)

\* The spellings registered through args_add_option, in registration order.
Registered(st) ==
  FirstSeen(Flatten([i \in 1..st.args_options_count |-> st.args_options[i].alternatives]))

\* C17: the first args_get_optmap_count() cells of args_get_optmap() are the
\* spellings registered through args_add_option, each once, in registration
\* order.
C17_OptmapEnumerates ==
  cp.pc \in {"declare", "done"} =>
    /\ args_get_optmap_count(cp) <= Len(args_get_optmap(cp))
    /\ SubSeq(args_get_optmap(cp), 1, args_get_optmap_count(cp)) = Registered(cp)

\* Two different options have been registered.
C17_Witness ==
  /\ cp.pc \in {"declare", "done"}
  /\ Len(Registered(cp)) = 4

----------------------------------------------------------------------------
(* Option declaration: the constructors on their own                       *)
(*                                                                         *)
(* A program calls args_new_argumentless, args_new_argumented or           *)
(* args_new_variadic (C), or constructs an Option (Java), with a list of   *)
(* at most MaxAlternatives names and a standard index within -n .. n - 1.  *)

MaxAlternatives == 3

DeclNames == {T_h, T_help, T_ww}

DeclCalls ==
  {[pc |-> "call", type |-> t, alternatives |-> a, standard |-> i] :
     t \in {ARGUMENTLESS, ARGUMENTED, VARIADIC},
     a \in SeqsUpTo(DeclNames, MaxAlternatives) \ {<<>>},
     i \in (0 - MaxAlternatives)..(MaxAlternatives - 1)}

DeclInit ==
  \E call \in DeclCalls :
    /\ 0 - Len(call.alternatives) <= call.standard
    /\ call.standard < Len(call.alternatives)
    /\ \/ cp = call /\ jp = Off /\ bp = Off
       \/ cp = Off /\ jp = call /\ bp = Off

CNewOption ==
  /\ cp.pc = "call"
  /\ cp' = [pc |-> "made", call |-> cp,
            option |-> args_new_option(cp.type, cp.standard, cp.alternatives)]
  /\ UNCHANGED <<jp, bp>>

JNewOption ==
  /\ jp.pc = "call"
  /\ jp' = [pc |-> "made", call |-> jp,
            option |-> Option(jp.type, jp.alternatives, jp.standard)]
  /\ UNCHANGED <<cp, bp>>

DeclNext == CNewOption \/ JNewOption

SpecDecl == DeclInit /\ [][DeclNext]_vars

\* The standard spelling the declaration is to have.
StandardOf(call) ==
  LET n == Len(call.alternatives)
  IN IF call.standard >= 0 THEN call.alternatives[call.standard + 1]
     ELSE call.alternatives[n + call.standard + 1]

\* C14: an option declared with n >= 1 alternatives and standard index i,
\* -n <= i < n, has alternatives[i] as its standard spelling when i >= 0 and
\* alternatives[n + i] when i < 0, in C and in Java.
C14_StandardIndex ==
  /\ cp.pc = "made" => cp.option.standard = StandardOf(cp.call)
  /\ jp.pc = "made" => jp.option.standard = StandardOf(jp.call)

\* An option has been made with a negative index that does not name the first
\* alternative.
C14_Witness ==
  \E m \in {cp, jp} :
    /\ m.pc = "made"
    /\ m.call.standard < 0
    /\ m.option.standard # m.call.alternatives[1]

----------------------------------------------------------------------------
(* C: args_Map on its own                                                  *)
(*                                                                         *)
(* A map is initialised and up to MaxPuts calls of map_put are made on it, *)
(* with non-null values. cp.last is what a map keyed by the whole string   *)
(* holds after the same calls.                                             *)

MaxPuts == 3

T_w == <<"w">>

TrieKeys == {<<"-">>, T_h, T_w, T_ww, T_x}

TrieValues == {1, 2}

TrieInit == /\ cp = [pc |-> "trie", map |-> map_init, last |-> <<>>, puts |-> 0]
            /\ jp = Off
            /\ bp = Off

CMapPut ==
  /\ cp.pc = "trie"
  /\ cp.puts < MaxPuts
  /\ \E key \in TrieKeys, value \in TrieValues :
       cp' = [cp EXCEPT !.map = map_put(@, key, value),
                        !.last = (key :> value) @@ @,
                        !.puts = @ + 1]
  /\ UNCHANGED <<jp, bp>>

SpecTrie == TrieInit /\ [][CMapPut]_vars

\* C16: map_get(k) is the value of the most recent map_put(k, v) and null for
\* a key that was never put, also when keys share a prefix.
C16_TrieIsMap ==
  cp.pc = "trie" =>
    \A key \in TrieKeys :
      map_get(cp.map, key) = IF key \in DOMAIN cp.last THEN cp.last[key] ELSE 0

\* Two keys of which one is a prefix of the other have been put, and a third
\* key has not.
C16_Witness ==
  /\ cp.pc = "trie"
  /\ {T_w, T_ww} \subseteq DOMAIN cp.last
  /\ T_h \notin DOMAIN cp.last

----------------------------------------------------------------------------
(* Bash: properties of the abbreviation expansion                          *)

MaxRounds == 4

RECURSIVE bash_declare(_, _)
\* The program's calls of args_add_*, from the k-th on.
bash_declare(st, k) ==
  IF k > st.ndecl THEN st
  ELSE bash_declare(args_add(st, BDeclared[k].type, <<>>, on_use, 0, BDeclared[k].alts),
                    k + 1)

\* The program of st as it is when it calls args_parse.
BProgram(st) ==
  bash_declare(bash_args_init(st.ndecl, st.args_alternative, st.args_abbreviations,
                              st.inputs), 1)

\* What args_parse leaves: the result store, the files, the unrecognised
\* count and the return value.
Outcome(st) ==
  [opts |-> st.opts, files |-> st.args_files,
   unrecognised |-> st.args_unrecognised_count, rc |-> st.rc]

NameOf(arg)  == SubSeq(arg, 1, IndexOf(arg, "=") - 1)
ValueOf(arg) == Drop(arg, IndexOf(arg, "="))

\* The declared spellings that have name as a literal prefix.
Expansions(st, name) == {c \in DOMAIN st.optmap : IsPrefix(name, c)}

\* The token name=value with the one expansion of name in place of name.
Expanded(st, arg) ==
  (CHOOSE c \in Expansions(st, NameOf(arg)) : TRUE) \o <<"=">> \o ValueOf(arg)

\* The command line is one name=value token whose name has one expansion.
OneAbbreviated(st) ==
  /\ Len(st.args_arguments) = 1
  /\ IndexOf(st.args_arguments[1], "=") > 0
  /\ Cardinality(Expansions(st, NameOf(st.args_arguments[1]))) = 1

\* C18: with args_standard_abbreviations, when exactly one declared spelling
\* S has the name of name=value as a literal prefix, parsing [name=value]
\* leaves the result store, files, unrecognised count and return value that
\* parsing [S=value] leaves; while the scan has S=value in front of it, the
\* parser is in the state it is in when it starts on [S=value].
C18_AbbreviatedValue ==
  (bp.pc \in {"scan", "done"} /\ OneAbbreviated(bp)) =>
    LET full == <<Expanded(bp, bp.args_arguments[1])>>
    IN /\ (bp.pc = "scan" /\ bp.todo = full) =>
            [bp EXCEPT !.args_arguments = full]
              = [bparse_begin(BProgram(bp), full) EXCEPT !.pc = "scan"]
       /\ (bp.pc = "done" /\ bp.resolved = 0) =>
            Outcome(bp) = Outcome(args_parse_run(BProgram(bp), full, MaxRounds))

\* [--op=x] has been parsed: --opt is the one spelling that starts with --op.
C18_Witness ==
  /\ bp.pc = "done"
  /\ bp.args_arguments = <<T_op \o <<"=">> \o T_x>>
  /\ Expansions(bp, T_op) = {T_opt}
  /\ args_option_get(bp, T_o) # <<>>

\* One round of the scan: the token in front is taken from "$@".
ScanStep(st) == bparse_token([st EXCEPT !.todo = Tail(@)], Head(st.todo))

\* The round has put a token back in front of "$@" in place of the one it
\* took: an expansion.
Requeues(st) == st.todo # <<>> /\ Len(ScanStep(st).todo) = Len(st.todo)

\* C20: with args_standard_abbreviations the scan ends: a token is expanded
\* at most once, so the token an expansion puts back is not expanded again,
\* also when the name of name=value is a declared spelling.
C20_ExpandsOnce ==
  (bp.pc = "scan" /\ Requeues(bp)) => ~Requeues(ScanStep(bp))

\* The scan has a name=value token in front whose name is a declared
\* spelling.
C20_Witness ==
  /\ bp.pc = "scan"
  /\ bp.todo # <<>>
  /\ IndexOf(Head(bp.todo), "=") > 0
  /\ NameOf(Head(bp.todo)) \in DOMAIN bp.optmap
  /\ Requeues(bp)

----------------------------------------------------------------------------
(* C: args_standard_abbreviations of libargparser                          *)
(*                                                                         *)
(* The expander is handed the declared spellings (options), for each the   *)
(* standard spelling of its option (standards) and their number. A cell of *)
(* standards is a pointer, [addr, str]: the spellings of one option share  *)
(* one pointer, and the code compares the pointers.                        *)

MaxLibOptions == 2

\* NULL, as a pointer to a spelling
NullSpelling == [addr |-> 0, str |-> Null]

LibDeclared ==
  {<<T_h, T_help>>, <<T_line, T_l>>, <<T_v, T_lines>>, <<T_opt>>}

LibArguments ==
  {T_dd, T_he, T_help, T_line, T_lines, T_op, T_foo, T_h,
   <<"-">>, <<"-","-","l">>, <<"-","-","l","i">>}

RECURSIVE LibOptions(_, _)
\* options[]: the spellings of the declared options, from the k-th option on
LibOptions(declared, k) ==
  IF k > Len(declared) THEN <<>>
  ELSE declared[k] \o LibOptions(declared, k + 1)

RECURSIVE LibStandards(_, _)
\* standards[]: for every spelling the pointer to the first spelling of its option
LibStandards(declared, k) ==
  IF k > Len(declared) THEN <<>>
  ELSE [i \in 1..Len(declared[k]) |-> [addr |-> k, str |-> declared[k][1]]]
         \o LibStandards(declared, k + 1)

RECURSIVE abbreviations_first(_, _, _, _, _)
\* A loop that returns the first standard it finds.
abbreviations_first(argument, options, standards, i, found) ==
  IF i >= Len(options) THEN found
  ELSE IF IsPrefix(argument, options[i + 1]) THEN standards[i + 1]
  ELSE abbreviations_first(argument, options, standards, i + 1, found)

RECURSIVE abbreviations_loop(_, _, _, _, _)
\* Lines 244-251: strstr(options[i], argument) == options[i] holds when
\* argument is a prefix of options[i].
abbreviations_loop(argument, options, standards, i, found) ==
  IF i >= Len(options) THEN found
  ELSE IF IsPrefix(argument, options[i + 1])
  THEN IF found = NullSpelling
       THEN abbreviations_loop(argument, options, standards, i + 1, standards[i + 1])
       ELSE IF found.addr # standards[i + 1].addr THEN NullSpelling
       ELSE abbreviations_loop(argument, options, standards, i + 1, found)
  ELSE abbreviations_loop(argument, options, standards, i + 1, found)

\* args_standard_abbreviations(argument, options, standards, count)
libargparser_standard_abbreviations(argument, options, standards) ==
  abbreviations_loop(argument, options, standards, 0, NullSpelling)

LibInit ==
  /\ \E declared \in SeqsUpTo(LibDeclared, MaxLibOptions), argument \in LibArguments :
       cp = [pc |-> "call", argument |-> argument,
             options |-> LibOptions(declared, 1),
             standards |-> LibStandards(declared, 1)]
  /\ jp = Off
  /\ bp = Off

CLibAbbreviations ==
  /\ cp.pc = "call"
  /\ cp' = [pc |-> "returned", call |-> cp,
            found |-> libargparser_standard_abbreviations(cp.argument, cp.options,
                                                          cp.standards)]
  /\ UNCHANGED <<jp, bp>>

SpecLibAbbrev == LibInit /\ [][CLibAbbreviations]_vars

\* The cells of options that argument is a literal prefix of.
LibHits(call) ==
  {i \in 1..Len(call.options) : IsPrefix(call.argument, call.options[i])}

\* C19, as stated: args_standard_abbreviations returns the one declared
\* spelling that has argument as a literal prefix when exactly one spelling
\* does, and NULL when none or more than one does.
C19_ReturnsSpelling ==
  cp.pc = "returned" =>
    LET spellings == {cp.call.options[i] : i \in LibHits(cp.call)}
    IN IF Cardinality(spellings) = 1
       THEN cp.found # NullSpelling /\ cp.found.str \in spellings
       ELSE cp.found = NullSpelling

\* C19, amended: args_standard_abbreviations returns the standard spelling of
\* the one declared option that has a spelling with argument as a literal
\* prefix, and NULL when no option or more than one option has such a
\* spelling.
C19_ReturnsStandard ==
  cp.pc = "returned" =>
    LET owners == {cp.call.standards[i] : i \in LibHits(cp.call)}
    IN IF Cardinality(owners) = 1
       THEN cp.found \in owners
       ELSE cp.found = NullSpelling

\* The expander has returned for an argument that only a spelling other than
\* the standard one starts with.
C19_Witness ==
  /\ cp.pc = "returned"
  /\ Cardinality(LibHits(cp.call)) = 1
  /\ cp.found # NullSpelling
  /\ ~IsPrefix(cp.call.argument, cp.found.str)

----------------------------------------------------------------------------
(* C: properties of the message, the values and the scan states            *)

RECURSIVE SpaceJoined(_)
\* The strings of a non-empty list with one space between neighbours.
SpaceJoined(list) ==
  IF Len(list) = 1 THEN list[1]
  ELSE SpaceJoined(SubSeq(list, 1, Len(list) - 1)) \o <<" ">> \o list[Len(list)]

\* C21: when args_parse returns, args_message is the bare files that remain
\* after the Variadic finalization, in order, with one space between
\* neighbours and none in front or behind; it is null when no file remains.
C21_Message ==
  cp.pc = "done" =>
    cp.args_message = IF files_of(cp) = <<>> THEN Null ELSE SpaceJoined(files_of(cp))

\* args_parse has returned with two bare files or more.
C21_Witness ==
  /\ cp.pc = "done"
  /\ Len(files_of(cp)) >= 2
  /\ cp.args_message # Null

----------------------------------------------------------------------------
(* Bash: properties of the Variadic finalization and of the classification *)

\* The command line is one use of the Variadic option {-v, --lines}, with no
\* value attached and no bare token.
BareVariadic(st) == st.args_arguments \in {<<T_v>>, <<T_lines>>}

\* C22: after a parse in which the Variadic option was used with no attached
\* value and there was no bare token, args_option has succeeds for the
\* option's standard spelling, and for every spelling once
\* args_support_alternatives has run, and args_option count prints 0.
C22_VariadicUnvalued ==
  (bp.pc = "done" /\ BareVariadic(bp)) =>
    \A s \in {T_v, T_lines} :
      (s = T_v \/ bp.resolved >= 1) =>
        /\ args_option_has(bp, s)
        /\ args_option_count(bp, s).out = <<0>>

\* The Variadic option has been parsed with no value and no bare token, and
\* its directory exists.
C22_Witness ==
  /\ bp.pc = "done"
  /\ BareVariadic(bp)
  /\ args_option_has(bp, T_v)

\* The command line of k uses of --line, each followed by the value x.
LineUses(k) == Flatten([i \in 1..k |-> <<T_line, T_x>>])

\* C23: after a parse in which the Argumented option {-l, --line} was used k
\* times, args_opts_get_count of its standard spelling is k and args_opts_get
\* holds the k values in command-line order.
C23_ArgumentedCount ==
  cp.pc = "done" =>
    \A k \in 1..(CMaxArgs \div 2) :
      cp.argv = LineUses(k) =>
        /\ args_opts_get_count(cp, T_l) = k
        /\ args_opts_get(cp, T_l) = ArrayOf([i \in 1..k |-> T_x])

\* args_parse has returned from [--line, x, --line, x].
C23_Witness ==
  /\ cp.pc = "done"
  /\ cp.argv = LineUses(2)

(* C: properties of args_opts_append                                        *)

\* The names whose entries a call of args_opts_append can be observed through.
AppendObserved == StoreNames \cup {T_h}

\* cp' is what args_opts_append(name, T_x) makes of cp, and the call did
\* what is promised of it.
Appended(name) ==
  /\ cp' = [args_opts_append(cp, name, T_x) EXCEPT !.calls = @ + 1, !.test = NoTest]
  /\ args_opts_get_count(cp', name) = args_opts_get_count(cp, name) + 1
  /\ args_opts_get(cp', name) = ArrayOf(Append(args_opts_get(cp, name).elems, T_x))
  /\ \A other \in AppendObserved \ {name} :
       /\ args_opts_get_count(cp', other) = args_opts_get_count(cp, other)
       /\ args_opts_get(cp', other) = args_opts_get(cp, other)
  /\ cp'.ub = cp.ub

\* C24: every call args_opts_append(name, v) raises the count of name by
\* exactly one, keeps the values it held in place, makes v the last one and
\* leaves the values and counts of every other name alone, however many
\* appends went before, and without a store outside the block of the values.
C24_AppendGrows == [][CStoreAppend => \E name \in StoreNames : Appended(name)]_vars

\* The program has called args_opts_append twice after the parse.
C24_Witness ==
  /\ cp.pc = "done"
  /\ cp.calls = StoreMaxCalls
  /\ cp.test = NoTest

(* C: properties of the scan                                                *)

\* The scan has taken the token that follows a leading --line.
AfterLineValue(st) ==
  /\ st.pc = "scan"
  /\ st.pos = 2
  /\ st.argv[1] = T_line

\* C25: the token that follows the Argumented option --line, given without
\* an attached value, is queued as its value whatever it looks like: Dashed
\* and TempDashed stay clear, no file is collected and nothing is counted as
\* unrecognised.
C25_ValueConsumed ==
  AfterLineValue(cp) =>
    /\ cp.argqueue = <<cp.argv[2]>>
    /\ cp.optqueue = <<T_line>>
    /\ ~cp.dashed
    /\ ~cp.tmpdashed
    /\ cp.args_files_count = 0
    /\ cp.args_unrecognised_count = 0

\* The scan has taken the -- that follows a leading --line.
C25_Witness ==
  /\ AfterLineValue(cp)
  /\ cp.argv[2] = T_dd

\* The scan is past a leading --lines, the long spelling of the Variadic option.
AfterVariadic(st) ==
  /\ st.pc \in {"scan", "deliver", "variadic", "message", "done"}
  /\ st.ndecl = Len(Declared)
  /\ st.pos >= 1
  /\ st.argv[1] = T_lines

\* C26: once the Variadic option --lines has been classified, Dashed stays set
\* to the end of the parse: no later token is queued as an option use or
\* counted as unrecognised, and the Variadic use is the only one recorded.
C26_VariadicDashes ==
  AfterVariadic(cp) =>
    /\ cp.dashed
    /\ cp.optqueue = <<T_lines>>
    /\ cp.args_unrecognised_count = 0

\* The scan has taken --lines and then --line.
C26_Witness ==
  /\ AfterVariadic(cp)
  /\ cp.pos = 2
  /\ cp.argv[2] = T_line

\* The command line is the optionally argumented option, as a token of its
\* own, and one more token.
OptThenToken(st) ==
  /\ st.pc = "done"
  /\ st.resolved = 0
  /\ Len(st.args_arguments) = 2
  /\ st.args_arguments[1] \in {T_o, T_opt}

\* The default evaluator rejects the tokens that start with - or +.
Rejected(t) == t[1] \in {"-", "+"}

\* The lines of name/data and name/null, none when there is no such entry.
LinesOf(fs, name) ==
  IF name \in DOMAIN fs THEN [data |-> fs[name].data, null |-> fs[name].null]
  ELSE [data |-> <<>>, null |-> <<>>]

\* C27: an optionally argumented option given as a token of its own and
\* followed by a token t: when the stickless evaluator accepts t, t is
\* recorded as the value and consumed; when it rejects t, the option is
\* recorded once without a value and t is classified as it is when it stands
\* alone on the command line.
C27_Stickless ==
  OptThenToken(bp) =>
    LET t     == bp.args_arguments[2]
        alone == Outcome(args_parse_run(BProgram(bp), <<t>>, MaxRounds))
    IN IF ~Rejected(t)
       THEN /\ DOMAIN bp.opts = {T_o}
            /\ LinesOf(bp.opts, T_o) = [data |-> <<t>>, null |-> << <<"0">> >>]
            /\ bp.args_files = <<>>
            /\ bp.args_unrecognised_count = 0
       ELSE /\ LinesOf(bp.opts, T_o).data = << <<>> >> \o LinesOf(alone.opts, T_o).data
            /\ LinesOf(bp.opts, T_o).null = << <<"1">> >> \o LinesOf(alone.opts, T_o).null
            /\ \A name \in (DOMAIN bp.opts \cup DOMAIN alone.opts) \ {T_o} :
                 /\ name \in DOMAIN bp.opts
                 /\ name \in DOMAIN alone.opts
                 /\ bp.opts[name] = alone.opts[name]
            /\ bp.args_files = alone.files
            /\ bp.args_unrecognised_count = alone.unrecognised
            /\ bp.rc = alone.rc

\* [--opt, -h] has been parsed: -o is recorded without a value, -h as a use.
C27_Witness ==
  /\ OptThenToken(bp)
  /\ bp.args_arguments = <<T_opt, T_h>>
  /\ LinesOf(bp.opts, T_o).null = << <<"1">> >>
  /\ T_h \in DOMAIN bp.opts

\* The command line of a program in alternative mode is the one token -lx.
AlternativeToken(st) ==
  /\ st.pc = "done"
  /\ st.args_alternative
  /\ st.args_arguments = <<T_l \o T_x>>

\* C28: in alternative mode the single-sigil token -lx is looked up as one
\* whole spelling and not scanned as a cluster: -lx is not declared, so no use
\* of -l and no value x is recorded.
C28_AlternativeWhole ==
  AlternativeToken(bp) =>
    /\ ~args_option_has(bp, T_l)
    /\ args_option_get(bp, T_l) = <<>>

\* [-lx] has been parsed in alternative mode.
C28_Witness ==
  /\ AlternativeToken(bp)
  /\ bp.resolved = 0

----------------------------------------------------------------------------
(* Java: properties of attached values and of the Variadic finalization    *)

\* The values that are attached to --line.
AttachedValues == {<<>>, T_x, T_x \o T_eqx}

\* The command line is the one token --line=v.
LineAttached(st, v) ==
  /\ st.pc = "done"
  /\ st.resolved = 0
  /\ st.arguments = <<T_line \o <<"=">> \o v>>

\* C29: a long token name=value is split at its first `=`: [--line=x=x]
\* records the value x=x, and [--line=] records one use whose value is the
\* empty string, which is not the null of a use without a value.
C29_FirstEquals ==
  \A v \in AttachedValues :
    LineAttached(jp, v) =>
      /\ opts_get(jp, T_l) = ArrayOf(<<v>>)
      /\ opts_get(jp, T_l).elems[1] # Null
      /\ jp.unrecognisedCount = 0
      /\ jp.files = <<>>

\* [--line=] has been parsed: the one value of -l is the empty string.
C29_Witness ==
  /\ LineAttached(jp, <<>>)
  /\ opts_get(jp, T_l) = ArrayOf(<< <<>> >>)

\* [--line=x=x] has been parsed: the one value of -l is x=x.
C29_WitnessEquals ==
  /\ LineAttached(jp, T_x \o T_eqx)
  /\ opts_get(jp, T_l) = ArrayOf(<<T_x \o T_eqx>>)

\* The forms of the Variadic option on these command lines, and the value
\* that is attached to each: none, the empty string, or x.
VariadicForms == {T_lines, T_lines \o <<"=">>, T_lines \o <<"=">> \o T_x, T_v \o T_x}

AttachedTo(token) ==
  IF token = T_lines THEN <<>>
  ELSE IF token = T_lines \o <<"=">> THEN << <<>> >>
  ELSE <<T_x>>

\* The tokens that neither open a state of the scan nor use the Variadic option.
BeforeVariadic == JAttachedTokens \ (VariadicForms \cup {T_dd})

\* The bare files among tokens.
BareFiles(tokens) == SelectSeq(tokens, LAMBDA t : t = T_x)

\* C30: after a parse in which the Variadic option was used, its entry under
\* the standard spelling is the attached value, when one was given as
\* --lines=value or -vvalue, followed by every bare file of the command line
\* in order, those before the Variadic token and those after it; the list of
\* bare files is empty and no message is set.
C30_VariadicEntry ==
  (jp.pc \in {"message", "done"} /\ jp.inputs = "attached") =>
    \A k \in 1..Len(jp.arguments) :
      (/\ jp.arguments[k] \in VariadicForms
       /\ \A j \in 1..(k - 1) : jp.arguments[j] \in BeforeVariadic)
        => /\ opts_get(jp, T_v)
                = ArrayOf(AttachedTo(jp.arguments[k])
                            \o BareFiles(SubSeq(jp.arguments, 1, k - 1))
                            \o SubSeq(jp.arguments, k + 1, Len(jp.arguments)))
           /\ jp.files = <<>>
           /\ jp.message = Null

\* [x, --lines=x, -h] has been parsed: the entry of -v is the attached value,
\* the file before the token and the token after it.
C30_Witness ==
  /\ jp.pc = "done"
  /\ jp.arguments = <<T_x, T_lines \o <<"=">> \o T_x, T_h>>
  /\ opts_get(jp, T_v) = ArrayOf(<<T_x, T_x, T_h>>)
  /\ jp.files = <<>>

----------------------------------------------------------------------------
(* Bash: properties of the cluster scan and of the triggers                *)

\* The command line is the one cluster +h.
PlusCluster(st) ==
  /\ st.pc = "done"
  /\ st.args_arguments = <<T_plush>>

\* C31: every spelling looked up while a cluster is scanned starts with the
\* sigil of the cluster: +h looks up +h and never -h, so the use that is
\* queued, if any, is spelled with + and no use of -h is recorded.
C31_ClusterSigil ==
  PlusCluster(bp) =>
    /\ \A i \in 1..Len(bp.optqueue) : bp.optqueue[i][1] = "+"
    /\ ~args_option_has(bp, T_h)

\* [+h] has been parsed.
C31_Witness ==
  /\ PlusCluster(bp)
  /\ bp.resolved = 0

----------------------------------------------------------------------------
(* C: short clusters                                                       *)
(*                                                                         *)
(* The program declares the options of Declared and parses a command line  *)
(* of clusters in which -h is known and -x is not.                         *)

CClusterMaxArgs == 2

T_hx == <<"-","h","x">>
T_xh == <<"-","x","h">>

CClusterTokens == {T_h, T_hx, T_xh, T_x}

CClusterInputs == SeqsUpTo(CClusterTokens, CClusterMaxArgs)

CClusterInit == /\ cp = args_init(Len(Declared))
                /\ jp = Off
                /\ bp = Off

CClusterParseBegin ==
  /\ cp.pc = "declare"
  /\ cp.args_options_count = cp.ndecl
  /\ \E argv \in CClusterInputs : cp' = [args_parse_begin(cp, argv) EXCEPT !.pc = "scan"]
  /\ UNCHANGED <<jp, bp>>

CClusterNext == \/ CAddOption
                \/ CClusterParseBegin
                \/ CScanToken
                \/ CDeliver
                \/ CVariadic
                \/ CFinish
                \/ CSupportAlternatives

SpecCCluster == CClusterInit /\ [][CClusterNext]_vars

\* The command line is one cluster of the known -h and the unknown -x.
MixedCluster(st) ==
  /\ st.pc = "done"
  /\ st.resolved = 0
  /\ st.argv \in {<<T_hx>>, <<T_xh>>}

\* C32: in a cluster the character of an unknown spelling adds exactly one to
\* args_unrecognised_count and makes the result false, and the scan goes on:
\* the known Argumentless option before or after it is recorded once.
C32_ClusterContinues ==
  MixedCluster(cp) =>
    /\ cp.args_unrecognised_count = 1
    /\ ~cp.rc
    /\ args_opts_get_count(cp, T_h) = 1
    /\ args_opts_get(cp, T_h) = ArrayOf(<<Null>>)

\* [-xh] has been parsed.
C32_Witness ==
  /\ MixedCluster(cp)
  /\ cp.argv = <<T_xh>>

----------------------------------------------------------------------------
(* Java: properties of testAllowed                                         *)

\* The options of which the parse recorded a use.
UsedOptions(st) ==
  {i \in 1..Len(st.options) : opts_get(st, st.options[i].standard) # NullPtr}

UsedStandards(st) == {st.options[i].standard : i \in UsedOptions(st)}

UsedSpellings(st) == UNION {Spellings(st.options[i]) : i \in UsedOptions(st)}

\* testAllowed has returned.
Tested(st) == st.pc = "tested" /\ st.test.fn = "allowed"

\* C33, as stated: whenever the allowed set holds the standard spelling of
\* every used option, testAllowed returns true and writes nothing, whether or
\* not supportAlternatives was called before it.
C33_AllowedByStandard ==
  (Tested(jp) /\ UsedStandards(jp) \subseteq jp.test.list) =>
    /\ jp.test.rc
    /\ jp.test.wrote = 0

\* C33, amended: testAllowed judges the keys of the result store. Before
\* supportAlternatives the keys are the standard spellings, and the allowed
\* set need only hold those of the used options. After supportAlternatives
\* every spelling of a used option is a key with values: testAllowed returns
\* true exactly when the allowed set holds all of them, and writes one line
\* for each that it does not hold.
C33_AllowedByKey ==
  Tested(jp) =>
    /\ (jp.resolved = 0 /\ UsedStandards(jp) \subseteq jp.test.list)
         => (jp.test.rc /\ jp.test.wrote = 0)
    /\ jp.resolved > 0
         => /\ jp.test.rc <=> (UsedSpellings(jp) \subseteq jp.test.list)
            /\ jp.test.wrote = Cardinality(UsedSpellings(jp) \ jp.test.list)

\* [-h] was parsed, supportAlternatives was called, and testAllowed({-h})
\* reported --help.
C33_Witness ==
  /\ Tested(jp)
  /\ jp.arguments = <<T_h>>
  /\ jp.resolved > 0
  /\ jp.test.list = {T_h}
  /\ ~jp.test.rc
  /\ jp.test.wrote = 1

\* C34: the trigger of an option is invoked exactly once for every use of
\* the option that the parse queued, whatever the kind of the option and the
\* form of the token.
C34_TriggerPerUse ==
  (bp.pc = "done" /\ bp.resolved = 0) =>
    /\ Len(bp.triggered) = Len(bp.optqueue)
    /\ \A i \in 1..Len(bp.triggered) : bp.triggered[i].opt = bp.optqueue[i]

\* [-lx] has been parsed: one use of -l with the value x is recorded.
C34_Witness ==
  /\ bp.pc = "done"
  /\ bp.resolved = 0
  /\ bp.args_arguments = <<T_l \o T_x>>
  /\ args_option_get(bp, T_l) = <<T_x>>

----------------------------------------------------------------------------
(* C: a program that calls args_parse more than once                       *)

CAgainMaxArgs == 2
CMaxParses    == 2

CAgainTokens == {T_dd, T_x, T_h}

CAgainInputs == SeqsUpTo(CAgainTokens, CAgainMaxArgs)

CAgainInit == /\ cp = args_init(Len(Declared))
              /\ jp = Off
              /\ bp = Off

CAgainParseBegin ==
  /\ cp.pc = "declare"
  /\ cp.args_options_count = cp.ndecl
  /\ \E argv \in CAgainInputs :
       cp' = [args_parse_begin(cp, argv) EXCEPT !.pc = "scan", !.calls = 1]
  /\ UNCHANGED <<jp, bp>>

\* args_parse is called again on the parser the last call left.
CParseAgain ==
  /\ cp.pc = "done"
  /\ cp.calls < CMaxParses
  /\ \E argv \in CAgainInputs :
       cp' = [args_parse_begin(cp, argv) EXCEPT !.pc = "scan", !.calls = @ + 1]
  /\ UNCHANGED <<jp, bp>>

CAgainNext == \/ CAddOption
              \/ CAgainParseBegin
              \/ CParseAgain
              \/ CScanToken
              \/ CDeliver
              \/ CVariadic
              \/ CFinish

SpecCAgain == CAgainInit /\ [][CAgainNext]_vars

RECURSIVE c_declare(_, _)
\* The options of Declared from the k-th on are added.
c_declare(st, k) ==
  IF k > st.ndecl THEN st
  ELSE c_declare(args_add_option(st, args_new_option(Declared[k].type, Declared[k].standard,
                                                     Declared[k].alternatives),
                                 T_helptext), k + 1)

\* The parser of st as it is before its first call of args_parse.
CProgram(st) == c_declare(args_init(st.ndecl), 1)

RECURSIVE args_parse_scan(_)
args_parse_scan(st) ==
  IF st.pos = Len(st.argv) THEN st
  ELSE args_parse_scan([args_parse_token(st, st.argv[st.pos + 1]) EXCEPT !.pos = @ + 1])

\* args_parse, from its first statement to its return
args_parse(st, argv) ==
  parse_finish(parse_variadic(parse_deliver(args_parse_scan(args_parse_begin(st, argv)), 0)))

\* What a call of args_parse leaves for its caller to read.
ParseOutput(st) ==
  [args_files |-> files_of(st), args_files_count |-> st.args_files_count,
   args_message |-> st.args_message,
   args_unrecognised_count |-> st.args_unrecognised_count]

\* C35: what args_parse leaves depends on the declared options and on the
\* tokens of the call only: after a second call, args_files, args_files_count,
\* args_message and args_unrecognised_count are what a first call with the
\* same tokens leaves.
C35_ParseRepeatable ==
  (cp.pc = "done" /\ cp.calls = 2) =>
    ParseOutput(cp) = ParseOutput(args_parse(CProgram(cp), cp.argv))

\* A second call has returned, on [--, x], after a call that collected a file.
C35_Witness ==
  /\ cp.pc = "done"
  /\ cp.calls = 2
  /\ cp.argv = <<T_dd, T_x>>
  /\ cp.args_files_count = 2

----------------------------------------------------------------------------
(* C: invariants of the scan                                               *)

\* args_parse has been called and has not crashed.
InParse(st) == st.pc \in {"scan", "variadic", "message", "done"}

C37_Counters ==
  InParse(cp) =>
    /\ cp.get \in {0, 1}
    /\ cp.dontget = 0

\* The scan is at the boundary after [--line, --line].
C37_Witness ==
  /\ cp.pc = "scan"
  /\ cp.pos = 2
  /\ SubSeq(cp.argv, 1, 2) = <<T_line, T_line>>
  /\ cp.dontget = 0

\* C38: in a first call after args_init, optptr, argptr and args_freeptr
\* never exceed queuesize, args_files_count never exceeds argc - 1, and no
\* store of the scan falls outside its block.
C38_InsideArrays ==
  InParse(cp) =>
    /\ cp.optptr <= cp.queuesize
    /\ cp.argptr <= cp.queuesize
    /\ cp.args_freeptr <= cp.queuesize
    /\ cp.args_files_count <= Len(cp.argv)
    /\ Len(cp.args_files) <= Len(cp.argv)
    /\ ~cp.ub

\* The scan has collected three files from [--, x, x, x].
C38_Witness ==
  /\ cp.pc = "variadic"
  /\ cp.argv = <<T_dd, T_x, T_x, T_x>>
  /\ cp.args_files_count = 3

====
